---- MODULE Spec2Model ----
(***************************************************************************)
(* welog, package logger (src/unnamed/part_007): the singleton log sink,   *)
(* its asynchronous delivery hook, the connection monitor and the bounded  *)
(* fallback ("overflow") file logs.txt.                                    *)
(*                                                                         *)
(* Bytes are numbers (their ASCII codes).  A file is a record              *)
(* [exists, data] with data the sequence of its bytes.                     *)
(***************************************************************************)
EXTENDS Integers, Sequences, FiniteSets, TLC

VARIABLES
    fs,         \* the fallback file logs.txt: [exists, data]
    call,       \* the last completed direct writeFallbackLog call (history)
    trim,       \* the last completed direct trimOldestLines call (history)
    nHooks,     \* the number of asyncHooks constructed so far
    wraps,      \* wraps[h]: the client h.hook sends to, 0 for a hook without one
    queue,      \* queue[h]: the content of h.queue, oldest first
    wpc,        \* wpc[h]: where h.worker() is
    cur,        \* cur[h]: the entry h.worker() holds (e), NoEntry if none
    cause,      \* cause[h]: the error h.hook.Fire returned for it (err)
    fileLock,   \* the hook whose worker holds fileLock, 0 if it is free
    nEntries,   \* the number of Fire calls made so far
    lastFire,   \* the last completed Fire call (history)
    pushed,     \* pushed[h]: the ids sent into h.queue, in order (history)
    fired,      \* fired[h]: the ids passed to h.hook.Fire, in order (history)
    stat,       \* stat[id]: what the workers did with the entry (history)
    sawFull,    \* the ids whose Fire found the queue full (history)
    lpc,        \* lpc[c]: where caller c is in Logger()
    onceSt,     \* the state of once: "fresh", "running" or "done"
    mutex,      \* the holder of mutex, 0 if it is free
    instance,   \* the package variable instance, 0 if nil
    client,     \* the package variable client, 0 if nil
    instHooks,  \* the hooks registered in the logger instance points to
    mpc,        \* where monitorConnection is, "none" before it is started
    nBuilds,    \* the number of logger() calls made (history)
    nMonitors,  \* the number of monitorConnection goroutines started (history)
    nClients,   \* the number of clients stored in client so far
    returned,   \* returned[c]: what c's last Logger() call returned (history)
    results,    \* the values Logger() calls have returned (history)
    raced,      \* a Logger() call began while the first was in once.Do (history)
    prevHooks,  \* the logger's hooks when reinitializeLogger was last called (history)
    prevClient, \* client when reinitializeLogger was last called, or as
                \* logger() left it if it never was (history)
    pinged,     \* the last tick's check of the attached client (history)
    elasticURL, \* the environment variable ELASTIC_URL, NoURL if it is empty or unset
    reachable,  \* the host the address names answers
    ticker,     \* the monitor's time.Ticker: "none", "running" or "stopped"
    monitorStop, \* the monitor's stop channel: "open" or "closed"
    clientAddr, \* the address client was configured with, NoURL if client is nil
    prevAddr,   \* clientAddr when prevClient was taken (history)
    adapter,    \* the middleware handling the current request: "gin", "fiber", "grpc"
    hpc,        \* where the request is: "idle", "handler", "done" or "panicked"
    inbound,    \* what the request arrived with: header, ctxID, ctxKind, ctxLog (history)
    requestID,  \* the request's requestID, NoID before the middleware ran
    respHeader, \* the values set for the request-ID response header, in order
    clientLog,  \* the value stored under generalkey.ClientLog: [kind, list]
    calls,      \* the records the request's Log...Client calls were given, in order (history)
    logged,     \* the fields of the request's log entry, NoLog if none was written
    nUUID,      \* the number of uuid.NewString() calls made so far
    nRequests,  \* the number of requests begun so far
    path,       \* how the request's handler ended: "ok", "handled" or "unhandled" (history)
    sinkCalls,  \* the levels of the log calls made for the request after its handler returned
    orig,       \* the caller's *logrus.Entry: Message, Level, Time, Caller, Buffer
    bufs,       \* bufs[b]: the content of the bytes.Buffer b; they are numbered as made
    nBufs,      \* the number of bytes.Buffers made so far
    copies,     \* the clones Fire has queued and the worker has not taken, oldest first
    atFire,     \* atFire[k]: what orig held when Fire made copies[k] (history)
    passed,     \* what the worker last passed on, and what it held at its Fire (history)
    nChanges    \* the number of changes and Fire calls the caller has made so far

storeVars == <<fs, call, trim>>
hookVars == <<nHooks, wraps, queue, wpc, cur, cause, fileLock, nEntries, lastFire,
              pushed, fired, stat, sawFull>>
monHist == <<prevHooks, prevClient, pinged, prevAddr>>
envVars == <<elasticURL, reachable>>
stopVars == <<ticker, monitorStop>>
cfgVars == <<clientAddr>>
reqVars == <<adapter, hpc, inbound, requestID, respHeader, clientLog, calls, logged,
             nUUID, nRequests, path, sinkCalls>>
copyVars == <<orig, bufs, nBufs, copies, atFire, passed, nChanges>>
sinkVars == <<lpc, onceSt, mutex, instance, client, instHooks, mpc, nBuilds,
              nMonitors, nClients, returned, results, raced, prevHooks,
              prevClient, pinged, elasticURL, reachable, ticker, monitorStop,
              clientAddr, prevAddr>>
vars == <<fs, call, trim, nHooks, wraps, queue, wpc, cur, cause, fileLock, nEntries, lastFire,
          pushed, fired, stat, sawFull, lpc, onceSt, mutex, instance, client,
          instHooks, mpc, nBuilds, nMonitors, nClients, returned, results, raced,
          prevHooks, prevClient, pinged, elasticURL, reachable, ticker, monitorStop,
          clientAddr, prevAddr, adapter, hpc, inbound, requestID, respHeader,
          clientLog, calls, logged, nUUID, nRequests, path, sinkCalls,
          orig, bufs, nBufs, copies, atFire, passed, nChanges>>

(***************************************************************************)
(* Bounds of the model.  The program's sizes (1 GiB budget, 1 MiB scanner  *)
(* token limit) are scaled down, keeping their order: ScanMax < MaxBytes.  *)
(***************************************************************************)
MaxBytes == 5
ScanMax == 3
MaxMsgLen == 2
\* The longest file trimOldestLines is called on directly.
MaxFileLen == 6
\* asyncHookBufferSize (256) scaled down, the number of hooks constructed and
\* the number of Fire calls made.
QueueCap == 2
MaxHooks == 2
MaxEntries == 3
\* Concurrent callers of Logger() and clients the process creates.
MaxCallers == 2
MaxClients == 2
\* The log calls made on the logger Logger() returned.
MaxLogs == 1
\* The log calls made while the workers' progress is followed.
MaxDrain == 2
\* The bytes.Buffers made, the bytes written into one, and the steps of a caller
\* that keeps using its entry.
MaxBufs == 3
MaxBufLen == 2
MaxChanges == 5
\* The identifiers callers send, the Log...Client calls of one request, the requests.
MaxIds == 2
MaxCalls == 2
MaxRequests == 2

(***************************************************************************)
(* Program constants.                                                      *)
(***************************************************************************)
NL == 10
CR == 13
fallbackMaxBytes == MaxBytes
asyncHookBufferSize == QueueCap
maxTokenSize == ScanMax

\* The byte a message is made of ("a"); messages differ in length.
MsgBytes == {97}
\* fmt.Sprintf(" hook_error=%v", hookErr): the prefix " hook_error=" is scaled
\* down to its first byte (a space), followed by the error's text.
hookErrorText(hookErr) == <<32>> \o hookErr
\* The error values a wrapped hook returns, as their text: "x", and a text
\* ("yy...") so long that the rendered entry exceeds the budget.
NoErr == <<>>
LongErr == [i \in 1..(MaxBytes - 2) |-> 121]
HookErrs == {<<120>>, LongErr}

RECURSIVE SeqsUpTo(_, _)
SeqsUpTo(S, n) ==
    IF n = 0 THEN {<<>>}
    ELSE LET shorter == SeqsUpTo(S, n - 1)
         IN  shorter \cup {Append(s, b) : s \in {t \in shorter : Len(t) = n - 1}, b \in S}

(***************************************************************************)
(* Entries.  An entry carries its message and the state of its logger's    *)
(* formatter: "none" (no logger or no formatter), "fail" (Format returns   *)
(* an error), "ok" (Format returns the rendered line).                     *)
(***************************************************************************)
NilEntry == [nil |-> TRUE, msg |-> <<>>, fmtr |-> "none"]
Entry(m, f) == [nil |-> FALSE, msg |-> m, fmtr |-> f]

\* logrus formatters (ecslogrus.Formatter, JSON and text) render an entry as
\* one line: the encoded fields, then a newline.  Newlines inside the message
\* are escaped by the encoding.
Escape(b) == IF b = NL THEN <<92, 110>> ELSE <<b>>
RECURSIVE Encode(_)
Encode(m) == IF m = <<>> THEN <<>> ELSE Escape(Head(m)) \o Encode(Tail(m))
Format(entry) == Encode(entry.msg) \o <<NL>>

formatEntry(entry) ==
    IF entry.nil THEN <<>>
    ELSE IF entry.fmtr = "ok" THEN Format(entry)
    ELSE entry.msg

buildFallbackBytes(entry, hookErr) ==
    LET formatted == formatEntry(entry)
        logBytes == IF hookErr # NoErr THEN formatted \o hookErrorText(hookErr)
                    ELSE formatted
    IN  IF Len(logBytes) = 0 THEN <<>>
        ELSE IF logBytes[Len(logBytes)] # NL THEN Append(logBytes, NL)
        ELSE logBytes

(***************************************************************************)
(* bufio.Scanner with bufio.ScanLines and a maximum token size: the lines  *)
(* of data, each without its newline and without a trailing carriage       *)
(* return; a last line without newline is a line too.  A line that fills   *)
(* the buffer (maxTokenSize bytes) before its newline is seen ends the     *)
(* scan with ErrTooLong.                                                   *)
(***************************************************************************)
dropCR(line) ==
    IF Len(line) > 0 /\ line[Len(line)] = CR THEN SubSeq(line, 1, Len(line) - 1)
    ELSE line

IndexNL(data) ==
    IF \E i \in 1..Len(data) : data[i] = NL
    THEN CHOOSE i \in 1..Len(data) : data[i] = NL /\ \A j \in 1..(i - 1) : data[j] # NL
    ELSE 0

\* [lines, err]: the tokens Scan returns until it returns false, and Err().
RECURSIVE scanLines(_)
scanLines(data) ==
    IF data = <<>> THEN [lines |-> <<>>, err |-> FALSE]
    ELSE LET i == IndexNL(data)
             raw == IF i = 0 THEN Len(data) ELSE i - 1
         IN  IF raw >= maxTokenSize THEN [lines |-> <<>>, err |-> TRUE]
             ELSE LET rest == scanLines(SubSeq(data, raw + 2, Len(data)))
                  IN  [lines |-> <<[raw |-> raw, line |-> dropCR(SubSeq(data, 1, raw))]>> \o rest.lines,
                       err |-> rest.err]

writeLine(tmp, line) == tmp \o line \o <<NL>>

\* [kept, next]: what discardUntilFreed wrote to tmp and the index of the
\* first line it left to copyRemaining.
RECURSIVE discardFrom(_, _, _, _)
discardFrom(lines, i, removed, bytesToFree) ==
    IF i > Len(lines) THEN [tmp |-> <<>>, next |-> i]
    ELSE LET r == removed + Len(lines[i].line) + 1
         IN  IF r >= bytesToFree THEN [tmp |-> writeLine(<<>>, lines[i].line), next |-> i + 1]
             ELSE discardFrom(lines, i + 1, r, bytesToFree)

discardUntilFreed(lines, bytesToFree) == discardFrom(lines, 1, 0, bytesToFree)

RECURSIVE copyRemaining(_, _, _)
copyRemaining(lines, i, tmp) ==
    IF i > Len(lines) THEN tmp
    ELSE copyRemaining(lines, i + 1, writeLine(tmp, lines[i].line))

\* The temp file is renamed over the file before scanner.Err() is looked at
\* (a mutant of trimOldestLines).
trimOldestLinesRenamingFirst(data, bytesToFree, ioFail) ==
    LET scan == scanLines(data)
        d == discardUntilFreed(scan.lines, bytesToFree)
        tmp == copyRemaining(scan.lines, d.next, d.tmp)
    IN  IF ioFail THEN [err |-> TRUE, data |-> data]
        ELSE [err |-> scan.err, data |-> tmp]

\* [err, data]: the error trimOldestLines returns and the file's content after
\* it.  ioFail: an I/O error (open, temp file, write, close, rename) occurs.
trimOldestLines(data, bytesToFree, ioFail) ==
    LET scan == scanLines(data)
        d == discardUntilFreed(scan.lines, bytesToFree)
        tmp == copyRemaining(scan.lines, d.next, d.tmp)
    IN  IF ioFail \/ scan.err THEN [err |-> TRUE, data |-> data]
        ELSE [err |-> FALSE, data |-> tmp]

fileSize(f) == Len(f.data)

\* [err, fs]
ensureFallbackFile(f, fault) ==
    IF f.exists THEN [err |-> FALSE, fs |-> f]
    ELSE IF fault = "create" THEN [err |-> TRUE, fs |-> f]
    ELSE [err |-> fault = "close", fs |-> [exists |-> TRUE, data |-> <<>>]]

\* [err, fs]
ensureFallbackCapacity(f, additional, fault) ==
    IF fault = "stat" THEN [err |-> TRUE, fs |-> f]
    ELSE LET required == fileSize(f) + additional
         IN  IF required <= fallbackMaxBytes THEN [err |-> FALSE, fs |-> f]
             ELSE LET t == trimOldestLines(f.data, required - fallbackMaxBytes, fault = "trim")
                  IN  [err |-> t.err, fs |-> [f EXCEPT !.data = t.data]]

\* fault "open": OpenFile (or the Write after it) fails and nothing is stored.
appendFallback(f, logBytes, fault) ==
    IF fault = "open" THEN f
    ELSE [f EXCEPT !.data = @ \o logBytes]

\* The I/O error a call meets, if any: os.Create, Close of the created file,
\* os.Stat, an operation of trimOldestLines, os.OpenFile.
Faults == {"none", "create", "close", "stat", "trim", "open"}

\* writeFallbackLog without its size test (a mutant of fallbackSkipped).
fallbackSkippedNoSizeTest(logBytes) ==
    Len(logBytes) = 0

\* The first test of writeFallbackLog: nothing to write, or more than fits.
fallbackSkipped(logBytes) ==
    Len(logBytes) = 0 \/ Len(logBytes) > fallbackMaxBytes

\* writeFallbackLog between fileLock.Lock() and fileLock.Unlock().
fallbackLocked(f, logBytes, fault) ==
    LET e == ensureFallbackFile(f, fault)
        c == ensureFallbackCapacity(e.fs, Len(logBytes), fault)
    IN  IF e.err THEN e.fs
        ELSE IF c.err THEN c.fs
        ELSE appendFallback(c.fs, logBytes, fault)

writeFallbackLog(f, entry, hookErr, fault) ==
    LET logBytes == buildFallbackBytes(entry, hookErr)
    IN  IF fallbackSkipped(logBytes) THEN f
        ELSE fallbackLocked(f, logBytes, fault)

\* The call of writeFallbackLog gets as far as trimOldestLines, which returns
\* an error.
trimFailed(f, logBytes, fault) ==
    IF fallbackSkipped(logBytes) THEN FALSE
    ELSE LET e == ensureFallbackFile(f, fault)
             required == fileSize(e.fs) + Len(logBytes)
         IN  /\ ~e.err
             /\ fault # "stat"
             /\ required > fallbackMaxBytes
             /\ trimOldestLines(e.fs.data, required - fallbackMaxBytes, fault = "trim").err

(***************************************************************************)
(* The overflow store alone: any sequence of writeFallbackLog calls.       *)
(***************************************************************************)
StoreEntries ==
    {NilEntry} \cup {Entry(m, f) : m \in SeqsUpTo(MsgBytes, MaxMsgLen), f \in {"none", "fail", "ok"}}

\* The store is driven with no error and with one error text.
StoreErrs == {NoErr, <<120>>}

\* trimErr: the call reached trimOldestLines, which returned an error.
NoCall == [done |-> FALSE, logBytes |-> <<>>, ioOK |-> TRUE, trimErr |-> FALSE]

\* before: the file's content at the call; err: an error was returned.
NoTrim == [done |-> FALSE, before |-> <<>>, bytesToFree |-> 0, ioOK |-> TRUE, err |-> FALSE]
\* The bytes of the files trimOldestLines is driven with: "a", newline and
\* carriage return.
TrimBytes == {97, NL, CR}
TrimFiles == SeqsUpTo(TrimBytes, MaxFileLen)

\* os.Getenv returns "" for a variable that is not set.
NoURL == 0
\* The empty string as a request id: no header sent, no value in the context.
NoID == 0
\* The identifiers a caller sends.
ReqIds == 1..MaxIds
\* The records util.BuildTargetLogFields builds, named by the call's target.
LogData == {"a", "b"}
\* A nil *bytes.Buffer is 0.
Bufs == 1..MaxBufs
\* What a worker passes on of an entry: its fields and its buffer's content.
NoView == [Message |-> 0, Level |-> 0, Time |-> 0, Caller |-> 0, hasBuffer |-> FALSE,
           content |-> <<>>]
NoInbound == [header |-> NoID, ctxID |-> NoID, ctxKind |-> "none", ctxLog |-> <<>>]
NoLog == [requestId |-> NoID, target |-> <<>>, written |-> FALSE]
\* The addresses ELASTIC_URL is set to.
Addrs == {1, 2}
Urls == {NoURL} \cup Addrs

Hooks == 1..MaxHooks
EntryIds == 1..MaxEntries
NoEntry == [id |-> 0, msg |-> <<>>]
Callers == 1..MaxCallers
\* The holder id of the monitorConnection goroutine.
MonitorId == MaxCallers + 1
\* done: the call returned; val: the value; gen: the clients stored by then.
NotReturned == [done |-> FALSE, val |-> 0, gen |-> 0]
\* fires: the calls of hook.Fire with the entry; ret: what the last one returned
\* (NoErr: nil); handed: the calls of writeFallbackLog with it; cause: their error.
NoStat == [fires |-> 0, ret |-> NoErr, handed |-> 0, cause |-> NoErr]

\* No fallback file yet, no hook constructed, no call made; the address is
\* configured and the host answers.
Init ==
    /\ fs = [exists |-> FALSE, data |-> <<>>]
    /\ call = NoCall
    /\ trim = NoTrim
    /\ nHooks = 0
    /\ wraps = [h \in Hooks |-> 0]
    /\ queue = [h \in Hooks |-> <<>>]
    /\ wpc = [h \in Hooks |-> "none"]
    /\ cur = [h \in Hooks |-> NoEntry]
    /\ cause = [h \in Hooks |-> NoErr]
    /\ fileLock = 0
    /\ nEntries = 0
    /\ lastFire = [hook |-> 0, id |-> 0, ret |-> "nil"]
    /\ pushed = [h \in Hooks |-> <<>>]
    /\ fired = [h \in Hooks |-> <<>>]
    /\ stat = [id \in EntryIds |-> NoStat]
    /\ sawFull = {}
    /\ lpc = [c \in Callers |-> "idle"]
    /\ onceSt = "fresh"
    /\ mutex = 0
    /\ instance = 0
    /\ client = 0
    /\ instHooks = {}
    /\ mpc = "none"
    /\ nBuilds = 0
    /\ nMonitors = 0
    /\ nClients = 0
    /\ returned = [c \in Callers |-> NotReturned]
    /\ results = {}
    /\ raced = FALSE
    /\ prevHooks = {}
    /\ prevClient = 0
    /\ pinged = "none"
    /\ elasticURL = 1
    /\ reachable = TRUE
    /\ ticker = "none"
    /\ monitorStop = "open"
    /\ clientAddr = NoURL
    /\ prevAddr = NoURL
    /\ adapter = "none"
    /\ hpc = "idle"
    /\ inbound = NoInbound
    /\ requestID = NoID
    /\ respHeader = <<>>
    /\ clientLog = [kind |-> "none", list |-> <<>>]
    /\ calls = <<>>
    /\ logged = NoLog
    /\ nUUID = 0
    /\ nRequests = 0
    /\ path = "none"
    /\ sinkCalls = <<>>
    /\ orig = [Message |-> 1, Level |-> 1, Time |-> 1, Caller |-> 1, Buffer |-> 0]
    /\ bufs = [b \in Bufs |-> <<>>]
    /\ nBufs = 0
    /\ copies = <<>>
    /\ atFire = <<>>
    /\ passed = [done |-> FALSE, got |-> NoView, want |-> NoView]
    /\ nChanges = 0


Persist ==
    \E entry \in StoreEntries, hookErr \in StoreErrs, fault \in Faults :
        /\ fs' = writeFallbackLog(fs, entry, hookErr, fault)
        /\ call' = [done |-> TRUE, logBytes |-> buildFallbackBytes(entry, hookErr),
                    ioOK |-> fault = "none",
                    trimErr |-> trimFailed(fs, buildFallbackBytes(entry, hookErr), fault)]
        /\ UNCHANGED hookVars
        /\ UNCHANGED <<trim, sinkVars, reqVars, copyVars>>

StoreNext == Persist

SpecStore == Init /\ [][StoreNext]_vars

(***************************************************************************)
(* trimOldestLines alone, called on a file of any content, as              *)
(* TestTrimOldestLines calls it.                                           *)
(***************************************************************************)
\* The file is created and written.
WriteString ==
    /\ ~fs.exists
    /\ \E data \in TrimFiles : fs' = [exists |-> TRUE, data |-> data]
    /\ UNCHANGED <<call, trim, hookVars, sinkVars, reqVars, copyVars>>

\* trimOldestLines(path, bytesToFree)
Trim ==
    /\ fs.exists
    /\ \E bytesToFree \in 0..(MaxFileLen + 1), ioFail \in BOOLEAN :
        LET t == trimOldestLines(fs.data, bytesToFree, ioFail)
        IN  /\ fs' = [fs EXCEPT !.data = t.data]
            /\ trim' = [done |-> TRUE, before |-> fs.data, bytesToFree |-> bytesToFree,
                        ioOK |-> ~ioFail, err |-> t.err]
    /\ UNCHANGED <<call, hookVars, sinkVars, reqVars, copyVars>>

TrimNext == WriteString \/ Trim

SpecTrim == Init /\ [][TrimNext]_vars

(***************************************************************************)
(* The delivery hooks: asyncHook, its queue and its worker.  Entries are   *)
(* records [id, msg]: every log call makes an entry of its own, and entry  *)
(* id carries the message byte 96 + id.  The sink's logger renders with    *)
(* its ecslogrus.Formatter.                                                *)
(***************************************************************************)
logEntry(id) == [id |-> id, msg |-> <<96 + id>>]

\* duplicateEntry: the clone gets the entry's fields and a copy of its buffer.
duplicateEntry(entry) == [id |-> entry.id, msg |-> entry.msg]

render(e, hookErr) == buildFallbackBytes(Entry(e.msg, "ok"), hookErr)

\* The new hook's queue is filled with the entries handed to writeFallbackLog
\* so far (a mutant of newAsyncHook).
newAsyncHookReplaying(h, cl) ==
    /\ nHooks' = h
    /\ wraps' = [wraps EXCEPT ![h] = cl]
    /\ queue' = [queue EXCEPT ![h] =
            SelectSeq([i \in 1..MaxEntries |-> [id |-> i, msg |-> <<96 + i>>]],
                      LAMBDA e : stat[e.id].handed >= 1)]
    /\ wpc' = [wpc EXCEPT ![h] = "recv"]

\* newAsyncHook: the queue is made and the worker goroutine started.
newAsyncHook(h, cl) ==
    /\ nHooks' = h
    /\ wraps' = [wraps EXCEPT ![h] = cl]
    /\ queue' = [queue EXCEPT ![h] = <<>>]
    /\ wpc' = [wpc EXCEPT ![h] = "recv"]

\* A hook is constructed on its own, around a stub, as the tests construct it.
NewAsyncHook ==
    /\ nHooks < MaxHooks
    /\ newAsyncHook(nHooks + 1, 0)
    /\ UNCHANGED <<fs, call, cur, cause, fileLock, nEntries, lastFire, pushed, fired, stat, sawFull>>
    /\ UNCHANGED <<trim, sinkVars, reqVars, copyVars>>

\* A send without a default case: it waits while the queue is full (a mutant
\* of selectReady).
selectReadyBlocking(q) == Len(q) < asyncHookBufferSize

\* select { case h.queue <- entryCopy: default: } never waits.
selectReady(q) == TRUE

\* A full queue makes room by dropping its oldest entry (a mutant of selectSend).
selectSendEvicting(q, entryCopy) ==
    IF Len(q) < asyncHookBufferSize THEN [sent |-> TRUE, q |-> Append(q, entryCopy)]
    ELSE [sent |-> TRUE, q |-> Append(Tail(q), entryCopy)]

\* The queue grows without limit (a mutant of selectSend).
selectSendUnbounded(q, entryCopy) == [sent |-> TRUE, q |-> Append(q, entryCopy)]

\* The select of Fire: the send when the channel has room, else the default case.
selectSend(q, entryCopy) ==
    IF Len(q) < asyncHookBufferSize THEN [sent |-> TRUE, q |-> Append(q, entryCopy)]
    ELSE [sent |-> FALSE, q |-> q]

\* Fire's return value.
fireReturn(sent) == "nil"

\* asyncHook.Fire on hook h, called with a new entry.
Fire(h) ==
    /\ h <= nHooks
    /\ nEntries < MaxEntries
    /\ selectReady(queue[h])
    /\ LET id == nEntries + 1
           entryCopy == duplicateEntry(logEntry(id))
           r == selectSend(queue[h], entryCopy)
       IN  /\ nEntries' = id
           /\ queue' = [queue EXCEPT ![h] = r.q]
           /\ pushed' = IF r.sent THEN [pushed EXCEPT ![h] = Append(@, id)] ELSE pushed
           /\ sawFull' = IF Len(queue[h]) >= asyncHookBufferSize THEN sawFull \cup {id} ELSE sawFull
           /\ lastFire' = [hook |-> h, id |-> id, ret |-> fireReturn(r.sent)]
    /\ UNCHANGED <<fs, call, nHooks, wraps, wpc, cur, cause, fileLock, fired, stat>>
    /\ UNCHANGED <<trim, sinkVars, reqVars, copyVars>>

\* The worker takes the newest entry (a mutant of receive).
receiveNewest(q) == [e |-> q[Len(q)], q |-> SubSeq(q, 1, Len(q) - 1)]

\* The worker reads the oldest entry and leaves it queued (a mutant of receive).
receivePeek(q) == [e |-> Head(q), q |-> q]

\* for e := range h.queue: the oldest entry leaves the queue.
receive(q) == [e |-> Head(q), q |-> Tail(q)]

Recv(h) ==
    /\ wpc[h] = "recv"
    /\ queue[h] # <<>>
    /\ LET r == receive(queue[h])
       IN  /\ cur' = [cur EXCEPT ![h] = r.e]
           /\ queue' = [queue EXCEPT ![h] = r.q]
    /\ wpc' = [wpc EXCEPT ![h] = "fire"]
    /\ UNCHANGED <<fs, call, nHooks, wraps, cause, fileLock, nEntries, lastFire, pushed, fired, stat, sawFull>>
    /\ UNCHANGED <<trim, sinkVars, reqVars, copyVars>>

\* The worker ignores the error (a mutant of afterFire).
afterFireDropping(q, e, err) == [fallback |-> FALSE, cause |-> err, q |-> q]

\* The worker overflows the entry and queues it again (a mutant of afterFire).
afterFireRetry(q, e, err) ==
    [fallback |-> err # NoErr, cause |-> err, q |-> IF err # NoErr THEN Append(q, e) ELSE q]

\* if err := h.hook.Fire(e); err != nil { writeFallbackLog(e, err) }
afterFire(q, e, err) == [fallback |-> err # NoErr, cause |-> err, q |-> q]

\* What the wrapped hook's Fire returns: nil or an error (the backend rejects
\* the document, the request times out); an error when the host does not answer.
fireResults(up) == IF up THEN {NoErr} \cup HookErrs ELSE HookErrs

\* h.hook.Fire(e) returns, with nil or an error; on an error the worker calls
\* writeFallbackLog(e, err).
HookFire(h) ==
    /\ wpc[h] = "fire"
    /\ \E err \in fireResults(reachable) :
        LET e == cur[h]
            a == afterFire(queue[h], e, err)
        IN  /\ fired' = [fired EXCEPT ![h] = Append(@, e.id)]
            /\ queue' = [queue EXCEPT ![h] = a.q]
            /\ stat' = [stat EXCEPT ![e.id] =
                    [fires |-> @.fires + 1,
                     ret |-> err,
                     handed |-> IF a.fallback THEN @.handed + 1 ELSE @.handed,
                     cause |-> IF a.fallback THEN a.cause ELSE @.cause]]
            /\ IF a.fallback
               THEN /\ wpc' = [wpc EXCEPT ![h] = "fallback"]
                    /\ cause' = [cause EXCEPT ![h] = a.cause]
                    /\ cur' = cur
               ELSE /\ wpc' = [wpc EXCEPT ![h] = "recv"]
                    /\ cause' = cause
                    /\ cur' = [cur EXCEPT ![h] = NoEntry]
    /\ UNCHANGED <<fs, call, nHooks, wraps, fileLock, nEntries, lastFire, pushed, sawFull>>
    /\ UNCHANGED <<trim, sinkVars, reqVars, copyVars>>

\* writeFallbackLog returns at its first test.
FallbackSkip(h) ==
    /\ wpc[h] = "fallback"
    /\ fallbackSkipped(render(cur[h], cause[h]))
    /\ wpc' = [wpc EXCEPT ![h] = "recv"]
    /\ cur' = [cur EXCEPT ![h] = NoEntry]
    /\ cause' = [cause EXCEPT ![h] = NoErr]
    /\ UNCHANGED <<fs, call, nHooks, wraps, queue, fileLock, nEntries, lastFire, pushed, fired, stat, sawFull>>
    /\ UNCHANGED <<trim, sinkVars, reqVars, copyVars>>

\* The file is guarded by the sink's mutex too (a mutant of lockReady).
lockReadySinkFree(holder) == holder = 0 /\ mutex = 0

\* Lock returns whoever holds the mutex (a mutant of lockReady).
lockReadyAlways(holder) == TRUE

\* sync.Mutex: Lock returns when nobody holds the mutex.
lockReady(holder) == holder = 0

\* fileLock.Lock()
FallbackLock(h) ==
    /\ wpc[h] = "fallback"
    /\ ~fallbackSkipped(render(cur[h], cause[h]))
    /\ lockReady(fileLock)
    /\ fileLock' = h
    /\ wpc' = [wpc EXCEPT ![h] = "locked"]
    /\ UNCHANGED <<fs, call, nHooks, wraps, queue, cur, cause, nEntries, lastFire, pushed, fired, stat, sawFull>>
    /\ UNCHANGED <<trim, sinkVars, reqVars, copyVars>>

\* The worker returns when writeFallbackLog met an I/O error (a mutant of
\* afterFallback).
afterFallbackExitOnFault(fault) == IF fault = "none" THEN "recv" ELSE "exited"

\* writeFallbackLog returns nothing: the range loop goes on to its next receive.
afterFallback(fault) == "recv"

\* The file operations of writeFallbackLog and the deferred fileLock.Unlock().
FallbackWrite(h) ==
    /\ wpc[h] = "locked"
    /\ \E fault \in Faults :
        /\ fs' = fallbackLocked(fs, render(cur[h], cause[h]), fault)
        /\ wpc' = [wpc EXCEPT ![h] = afterFallback(fault)]
    /\ fileLock' = 0
    /\ cur' = [cur EXCEPT ![h] = NoEntry]
    /\ cause' = [cause EXCEPT ![h] = NoErr]
    /\ UNCHANGED <<call, nHooks, wraps, queue, nEntries, lastFire, pushed, fired, stat, sawFull>>
    /\ UNCHANGED <<trim, sinkVars, reqVars, copyVars>>

HookNext ==
    \/ NewAsyncHook
    \/ \E h \in Hooks : Fire(h)
    \/ \E h \in Hooks : Recv(h)
    \/ \E h \in Hooks : HookFire(h)
    \/ \E h \in Hooks : FallbackSkip(h)
    \/ \E h \in Hooks : FallbackLock(h)
    \/ \E h \in Hooks : FallbackWrite(h)

SpecHook == Init /\ [][HookNext]_vars

\* The workers' progress.  Every worker is a goroutine of its own, started by
\* newAsyncHook and never stopped: the scheduler runs it whenever it can take
\* a step, and a goroutine waiting in fileLock.Lock() gets the mutex after
\* finitely many releases (sync.Mutex hands it to a starving waiter).  A hook
\* constructed later stands for a rebuild's hook: reinitializeLogger takes
\* the old hook out of the logger and leaves its queue and worker alone.
WorkerRun(h) == Recv(h) \/ HookFire(h) \/ FallbackSkip(h) \/ FallbackWrite(h)

DrainFair == \A h \in Hooks : WF_vars(WorkerRun(h)) /\ SF_vars(FallbackLock(h))

\* A log call that reaches hook h.
DrainFire(h) == nEntries < MaxDrain /\ Fire(h)

DrainNext ==
    \/ NewAsyncHook
    \/ \E h \in Hooks : DrainFire(h)
    \/ \E h \in Hooks : Recv(h)
    \/ \E h \in Hooks : HookFire(h)
    \/ \E h \in Hooks : FallbackSkip(h)
    \/ \E h \in Hooks : FallbackLock(h)
    \/ \E h \in Hooks : FallbackWrite(h)

SpecDrain == Init /\ [][DrainNext]_vars /\ DrainFair

(***************************************************************************)
(* The sink: Logger(), the logger() build under once, monitorConnection    *)
(* and reinitializeLogger.  Loggers and clients are numbered as they are   *)
(* made; 0 is nil.                                                         *)
(***************************************************************************)
\* The outcomes of logger() and of reinitializeLogger: the URL is not set,
\* NewClient fails, the ping fails, url.Parse fails, NewElasticHookWithFunc
\* fails, or the hook is added.
BuildOutcomes == {"nourl", "clienterr", "pingfail", "parseerr", "hookerr", "ok"}
Connected == {"parseerr", "hookerr", "ok"}

\* c.Ping with its 2 s timeout: a host that does not answer makes it fail, one
\* that answers may still be too slow.
pingResults(up) == IF up THEN BOOLEAN ELSE {FALSE}

\* The test of the address is left out (a mutant of loggerOutcomes).
loggerOutcomesNoURLTest(url, up) ==
    {"clienterr", "pingfail"} \cup (IF up THEN Connected ELSE {})

\* How far logger() gets: it returns at once when ELASTIC_URL is empty; else
\* NewClient fails, or the ping fails, or (the ping answered) url.Parse
\* fails, NewElasticHookWithFunc fails, or the hook is added.
loggerOutcomes(url, up) ==
    IF url = NoURL THEN {"nourl"}
    ELSE {"clienterr"} \cup {IF ok THEN "ok" ELSE "pingfail" : ok \in pingResults(up)}
            \cup (IF up THEN {"parseerr", "hookerr"} ELSE {})

\* The test of the address is left out (a mutant of reinitOutcomes).
reinitOutcomesNoURLTest(url, up) ==
    {"clienterr"} \cup {IF ok THEN "connected" ELSE "pingfail" : ok \in pingResults(up)}

\* How far reinitializeLogger gets before log.ReplaceHooks: it returns when
\* ELASTIC_URL is empty, when NewClient fails and when the ping fails.
reinitOutcomes(url, up) ==
    IF url = NoURL THEN {"nourl"}
    ELSE {"clienterr"} \cup {IF ok THEN "connected" ELSE "pingfail" : ok \in pingResults(up)}

\* The new client is made for the address of the client it replaces (a mutant
\* of dialAddr).
dialAddrKept(url) == IF clientAddr # NoURL THEN clientAddr ELSE url

\* elasticsearch.Config{Addresses: []string{elasticURL}}: the address the new
\* client connects to is the one just read from the environment.
dialAddr(url) == url

\* A call of Logger() by c begins.
Call(c) ==
    /\ lpc[c] = "idle"
    /\ lpc' = [lpc EXCEPT ![c] = "once"]
    /\ raced' = (raced \/ onceSt = "running")
    /\ UNCHANGED <<onceSt, mutex, instance, client, instHooks, mpc, nBuilds,
                   nMonitors, nClients, returned, results>>
    /\ UNCHANGED <<storeVars, hookVars>>
    /\ UNCHANGED <<monHist, envVars, stopVars, cfgVars, reqVars, copyVars>>

\* The test is "not done" alone: a caller runs f while another is running it
\* (a mutant of onceAdmits).
onceAdmitsNotDone(st) == st # "done"

\* once.Do runs f for the first caller only.
onceAdmits(st) == st = "fresh"

\* once.Do: c is the caller that runs the function.
OnceEnter(c) ==
    /\ lpc[c] = "once"
    /\ onceAdmits(onceSt)
    /\ onceSt' = "running"
    /\ lpc' = [lpc EXCEPT ![c] = "initlock"]
    /\ UNCHANGED <<mutex, instance, client, instHooks, mpc, nBuilds,
                   nMonitors, nClients, returned, results, raced>>
    /\ UNCHANGED <<storeVars, hookVars>>
    /\ UNCHANGED <<monHist, envVars, stopVars, cfgVars, reqVars, copyVars>>

\* once.Do returns to a caller when the function has been run.
OncePass(c) ==
    /\ lpc[c] = "once"
    /\ onceSt = "done"
    /\ lpc' = [lpc EXCEPT ![c] = "lock"]
    /\ UNCHANGED <<onceSt, mutex, instance, client, instHooks, mpc, nBuilds,
                   nMonitors, nClients, returned, results, raced>>
    /\ UNCHANGED <<storeVars, hookVars>>
    /\ UNCHANGED <<monHist, envVars, stopVars, cfgVars, reqVars, copyVars>>

\* mutex.Lock() in the function given to once.Do.
InitLock(c) ==
    /\ lpc[c] = "initlock"
    /\ mutex = 0
    /\ mutex' = c
    /\ lpc' = [lpc EXCEPT ![c] = "build"]
    /\ UNCHANGED <<onceSt, instance, client, instHooks, mpc, nBuilds,
                   nMonitors, nClients, returned, results, raced>>
    /\ UNCHANGED <<storeVars, hookVars>>
    /\ UNCHANGED <<monHist, envVars, stopVars, cfgVars, reqVars, copyVars>>

\* The client is stored before it is pinged (a mutant of buildClient).
buildClientUnpinged(o, old, new) ==
    IF o \in {"nourl", "clienterr"} THEN old ELSE new

\* client after logger() with outcome o: untouched before the ping, nil when
\* the ping fails, the new client after it.
buildClient(o, old, new) ==
    IF o \in {"nourl", "clienterr"} THEN old
    ELSE IF o = "pingfail" THEN 0
    ELSE new

\* instance = logger(): a new logger, with an asyncHook when all went well.
Build(c) ==
    /\ lpc[c] = "build"
    /\ \E o \in loggerOutcomes(elasticURL, reachable) :
        /\ o \in Connected => nClients < MaxClients
        /\ o = "ok" => nHooks < MaxHooks
        /\ client' = buildClient(o, client, nClients + 1)
        /\ nClients' = IF o \in Connected THEN nClients + 1 ELSE nClients
        /\ IF o = "ok"
           THEN /\ newAsyncHook(nHooks + 1, nClients + 1)
                /\ instHooks' = {nHooks + 1}
           ELSE /\ UNCHANGED <<nHooks, wraps, queue, wpc>>
                /\ instHooks' = {}
    /\ instance' = nBuilds + 1
    /\ nBuilds' = nBuilds + 1
    /\ lpc' = [lpc EXCEPT ![c] = "spawn"]
    /\ UNCHANGED <<onceSt, mutex, mpc, nMonitors, returned, results, raced>>
    /\ UNCHANGED <<storeVars, cur, cause, fileLock, nEntries, lastFire, pushed,
                   fired, stat, sawFull>>
    /\ prevClient' = client'
    /\ clientAddr' = IF client' = client THEN clientAddr
                     ELSE IF client' = 0 THEN NoURL ELSE dialAddr(elasticURL)
    /\ prevAddr' = clientAddr'
    /\ UNCHANGED <<prevHooks, pinged, envVars, stopVars, reqVars, copyVars>>

\* go monitorConnection(), whose ticker is made, then the deferred
\* mutex.Unlock().
InitDone(c) ==
    /\ lpc[c] = "spawn"
    /\ nMonitors' = nMonitors + 1
    /\ mpc' = "tick"
    /\ mutex' = 0
    /\ lpc' = [lpc EXCEPT ![c] = "oncedone"]
    /\ ticker' = "running"
    /\ UNCHANGED <<onceSt, instance, client, instHooks, nBuilds, nClients,
                   returned, results, raced>>
    /\ UNCHANGED <<storeVars, hookVars>>
    /\ UNCHANGED <<monHist, envVars, monitorStop, cfgVars, reqVars, copyVars>>

\* once.Do marks the function as run and returns.
OnceDone(c) ==
    /\ lpc[c] = "oncedone"
    /\ onceSt' = "done"
    /\ lpc' = [lpc EXCEPT ![c] = "lock"]
    /\ UNCHANGED <<mutex, instance, client, instHooks, mpc, nBuilds,
                   nMonitors, nClients, returned, results, raced>>
    /\ UNCHANGED <<storeVars, hookVars>>
    /\ UNCHANGED <<monHist, envVars, stopVars, cfgVars, reqVars, copyVars>>

\* mutex.Lock() at the end of Logger().
Lock(c) ==
    /\ lpc[c] = "lock"
    /\ mutex = 0
    /\ mutex' = c
    /\ lpc' = [lpc EXCEPT ![c] = "ret"]
    /\ UNCHANGED <<onceSt, instance, client, instHooks, mpc, nBuilds,
                   nMonitors, nClients, returned, results, raced>>
    /\ UNCHANGED <<storeVars, hookVars>>
    /\ UNCHANGED <<monHist, envVars, stopVars, cfgVars, reqVars, copyVars>>

\* return instance, and the deferred mutex.Unlock().
Return(c) ==
    /\ lpc[c] = "ret"
    /\ returned' = [returned EXCEPT ![c] = [done |-> TRUE, val |-> instance, gen |-> nClients]]
    /\ results' = results \cup {instance}
    /\ mutex' = 0
    /\ lpc' = [lpc EXCEPT ![c] = "idle"]
    /\ UNCHANGED <<onceSt, instance, client, instHooks, mpc, nBuilds,
                   nMonitors, nClients, raced>>
    /\ UNCHANGED <<storeVars, hookVars>>
    /\ UNCHANGED <<monHist, envVars, stopVars, cfgVars, reqVars, copyVars>>

\* monitorConnection: a tick arrives, mutex.Lock().
MonLock ==
    /\ mpc = "tick"
    /\ mutex = 0
    /\ mutex' = MonitorId
    /\ mpc' = "locked"
    /\ UNCHANGED <<lpc, onceSt, instance, client, instHooks, nBuilds,
                   nMonitors, nClients, returned, results, raced>>
    /\ UNCHANGED <<storeVars, hookVars>>
    /\ UNCHANGED <<monHist, envVars, stopVars, cfgVars, reqVars, copyVars>>

\* Without a client the tick does nothing (a mutant of tickCheck).
tickCheckIdleWithoutClient(cl, pingOK) ==
    IF cl = 0 \/ pingOK THEN "unlock" ELSE "reinit"

\* if client != nil { ping; if err != nil { reinitializeLogger } } else
\* { reinitializeLogger }: where the tick goes on.
tickCheck(cl, pingOK) ==
    IF cl # 0 /\ pingOK THEN "unlock" ELSE "reinit"

\* monitorConnection: with a client, its ping decides; without one,
\* reinitializeLogger is called.
MonPing ==
    /\ mpc = "locked"
    /\ \E pingOK \in pingResults(reachable) :
        /\ mpc' = tickCheck(client, pingOK)
        /\ pinged' = IF client = 0 THEN "none" ELSE IF pingOK THEN "ok" ELSE "fail"
    /\ UNCHANGED <<prevHooks, prevClient, prevAddr, envVars, stopVars, cfgVars, reqVars, copyVars>>
    /\ UNCHANGED <<lpc, onceSt, mutex, instance, client, instHooks, nBuilds,
                   nMonitors, nClients, returned, results, raced>>
    /\ UNCHANGED <<storeVars, hookVars>>

\* log.ReplaceHooks(make(logrus.LevelHooks)): the logger's hooks after it.
replaceHooks(old) == {}

\* A failed ping clears client, as it does in logger() (a mutant of
\* reinitClient).
reinitClientClearing(o, old, new) ==
    IF o = "connected" THEN new ELSE IF o = "pingfail" THEN 0 ELSE old

\* client after reinitializeLogger has got as far as outcome o: the new
\* client once its ping succeeded, the old one on every early return.
reinitClient(o, old, new) ==
    IF o = "connected" THEN new ELSE old

\* reinitializeLogger up to log.ReplaceHooks: it returns early, or stores the
\* new client and empties the logger's hooks.
MonReinit ==
    /\ mpc = "reinit"
    /\ prevHooks' = instHooks
    /\ prevClient' = client
    /\ prevAddr' = clientAddr
    /\ pinged' = pinged
    /\ \E o \in reinitOutcomes(elasticURL, reachable) :
        /\ client' = reinitClient(o, client, nClients + 1)
        /\ IF o = "connected"
           THEN /\ nClients < MaxClients
                /\ nClients' = nClients + 1
                /\ instHooks' = replaceHooks(instHooks)
                /\ mpc' = "replaced"
           ELSE /\ mpc' = "unlock"
                /\ UNCHANGED <<nClients, instHooks>>
    /\ clientAddr' = IF client' = client THEN clientAddr ELSE dialAddr(elasticURL)
    /\ UNCHANGED <<lpc, onceSt, mutex, instance, nBuilds, nMonitors,
                   returned, results, raced>>
    /\ UNCHANGED <<storeVars, hookVars, envVars, stopVars, reqVars, copyVars>>

\* reinitializeLogger after log.ReplaceHooks: it returns on an error, or adds
\* a new asyncHook to the logger.
MonAttach ==
    /\ mpc = "replaced"
    /\ \E o \in Connected :
        IF o = "ok"
        THEN /\ nHooks < MaxHooks
             /\ newAsyncHook(nHooks + 1, client)
             /\ instHooks' = instHooks \cup {nHooks + 1}
        ELSE UNCHANGED <<nHooks, wraps, queue, wpc, instHooks>>
    /\ mpc' = "unlock"
    /\ UNCHANGED <<lpc, onceSt, mutex, instance, client, nBuilds, nMonitors,
                   nClients, returned, results, raced>>
    /\ UNCHANGED <<storeVars, cur, cause, fileLock, nEntries, lastFire, pushed,
                   fired, stat, sawFull>>
    /\ UNCHANGED <<monHist, envVars, stopVars, cfgVars, reqVars, copyVars>>

\* The monitor goes on to wait for the next tick with mutex held (a mutant of
\* MonUnlock).
MonUnlockMissing ==
    /\ mpc = "unlock"
    /\ mutex' = mutex
    /\ mpc' = "tick"
    /\ UNCHANGED <<lpc, onceSt, instance, client, instHooks, nBuilds,
                   nMonitors, nClients, returned, results, raced>>
    /\ UNCHANGED <<storeVars, hookVars>>
    /\ UNCHANGED <<monHist, envVars, stopVars, cfgVars, reqVars, copyVars>>

\* monitorConnection: mutex.Unlock(), and the wait for the next tick.
MonUnlock ==
    /\ mpc = "unlock"
    /\ mutex' = 0
    /\ mpc' = "tick"
    /\ UNCHANGED <<lpc, onceSt, instance, client, instHooks, nBuilds,
                   nMonitors, nClients, returned, results, raced>>
    /\ UNCHANGED <<storeVars, hookVars>>
    /\ UNCHANGED <<monHist, envVars, stopVars, cfgVars, reqVars, copyVars>>

\* A log call on the logger Logger() returned, when a hook is registered:
\* logrus fires the registered hooks.
LogFire ==
    /\ results # {}
    /\ nEntries < MaxLogs
    /\ \E h \in instHooks : Fire(h)

\* A log call when no hook is registered: the entry goes to the logger's
\* output only.
LogBypass ==
    /\ results # {}
    /\ instHooks = {}
    /\ nEntries < MaxLogs
    /\ nEntries' = nEntries + 1
    /\ lastFire' = [hook |-> 0, id |-> nEntries + 1, ret |-> "nil"]
    /\ UNCHANGED <<storeVars, sinkVars, reqVars, copyVars>>
    /\ UNCHANGED <<nHooks, wraps, queue, wpc, cur, cause, fileLock, pushed, fired, stat, sawFull>>

\* SetConfig, os.Setenv and os.Unsetenv: ELASTIC_URL gets the value url.
SetConfig(url) ==
    /\ elasticURL # url
    /\ elasticURL' = url
    /\ UNCHANGED reachable
    /\ UNCHANGED <<storeVars, hookVars>>
    /\ UNCHANGED <<lpc, onceSt, mutex, instance, client, instHooks, mpc, nBuilds,
                   nMonitors, nClients, returned, results, raced, monHist, stopVars, cfgVars, reqVars, copyVars>>

\* The backend host goes down (up = FALSE) or comes up.
NetChange(up) ==
    /\ reachable # up
    /\ reachable' = up
    /\ UNCHANGED elasticURL
    /\ UNCHANGED <<storeVars, hookVars>>
    /\ UNCHANGED <<lpc, onceSt, mutex, instance, client, instHooks, mpc, nBuilds,
                   nMonitors, nClients, returned, results, raced, monHist, stopVars, cfgVars, reqVars, copyVars>>

\* The monitor is in a network operation: the ping of the attached client,
\* or the client construction, ping and hook construction of
\* reinitializeLogger.
MonitorIO(m, cl) == m \in {"reinit", "replaced"} \/ (m = "locked" /\ cl # 0)

SinkNext ==
    \/ \E c \in Callers : Call(c)
    \/ \E c \in Callers : OnceEnter(c)
    \/ \E c \in Callers : OncePass(c)
    \/ \E c \in Callers : InitLock(c)
    \/ \E c \in Callers : Build(c)
    \/ \E c \in Callers : InitDone(c)
    \/ \E c \in Callers : OnceDone(c)
    \/ \E c \in Callers : Lock(c)
    \/ \E c \in Callers : Return(c)
    \/ MonLock
    \/ MonPing
    \/ MonReinit
    \/ MonAttach
    \/ MonUnlock
    \/ \E url \in {NoURL, 1} : SetConfig(url)

SpecSink == Init /\ [][SinkNext]_vars

\* The monitor's loop.
MonitorNext ==
    \/ MonLock
    \/ MonPing
    \/ MonReinit
    \/ MonAttach
    \/ MonUnlock

\* One goroutine that gets the logger and logs, beside the monitor.
LogNext ==
    \/ Call(1)
    \/ OnceEnter(1)
    \/ InitLock(1)
    \/ Build(1)
    \/ InitDone(1)
    \/ OnceDone(1)
    \/ OncePass(1)
    \/ Lock(1)
    \/ Return(1)
    \/ MonitorNext
    \/ LogFire
    \/ LogBypass
    \/ \E url \in Urls : SetConfig(url)
    \/ \E up \in BOOLEAN : NetChange(up)

SpecLog == Init /\ [][LogNext]_vars

\* The logger in an outage: one goroutine that gets the logger and logs, the
\* monitor and the hooks' workers, while the host goes down and comes up.
OutageNext ==
    \/ Call(1)
    \/ OnceEnter(1)
    \/ InitLock(1)
    \/ Build(1)
    \/ InitDone(1)
    \/ OnceDone(1)
    \/ OncePass(1)
    \/ Lock(1)
    \/ Return(1)
    \/ MonitorNext
    \/ LogFire
    \/ LogBypass
    \/ \E h \in Hooks : Recv(h)
    \/ \E h \in Hooks : HookFire(h)
    \/ \E h \in Hooks : FallbackSkip(h)
    \/ \E h \in Hooks : FallbackLock(h)
    \/ \E h \in Hooks : FallbackWrite(h)
    \/ \E up \in BOOLEAN : NetChange(up)

SpecOutage == Init /\ [][OutageNext]_vars

(***************************************************************************)
(* The monitor's stop signal.  TestMonitorConnectionWithCustomTicker sets  *)
(* the package variable monitorStop to a channel, closes it and waits for  *)
(* monitorConnection to return.  The loop waits for a tick or for the      *)
(* signal, and a tick is not taken once the signal is given.               *)
(***************************************************************************)
\* close(stopCh)
CloseStop ==
    /\ monitorStop = "open"
    /\ monitorStop' = "closed"
    /\ UNCHANGED ticker
    /\ UNCHANGED <<storeVars, hookVars, envVars, cfgVars, reqVars, copyVars>>
    /\ UNCHANGED <<lpc, onceSt, mutex, instance, client, instHooks, mpc, nBuilds,
                   nMonitors, nClients, returned, results, raced, monHist>>

\* The loop takes a tick while no stop signal is given.
MonTick ==
    /\ monitorStop = "open"
    /\ MonLock

\* The ticker is left running (a mutant of tickerStop).
tickerStopMissing(t) == t

\* defer ticker.Stop()
tickerStop(t) == "stopped"

\* The loop receives the stop signal: monitorConnection returns, and its
\* deferred ticker.Stop() runs.
MonStop ==
    /\ mpc = "tick"
    /\ monitorStop = "closed"
    /\ mpc' = "stopped"
    /\ ticker' = tickerStop(ticker)
    /\ UNCHANGED monitorStop
    /\ UNCHANGED <<storeVars, hookVars, envVars, cfgVars, reqVars, copyVars>>
    /\ UNCHANGED <<lpc, onceSt, mutex, instance, client, instHooks, nBuilds,
                   nMonitors, nClients, returned, results, raced, monHist>>

\* The steps monitorConnection takes without waiting for anything but the
\* scheduler.
MonRun ==
    \/ MonPing
    \/ MonReinit
    \/ MonAttach
    \/ MonUnlock
    \/ MonStop

StopNext ==
    \/ Call(1)
    \/ OnceEnter(1)
    \/ InitLock(1)
    \/ Build(1)
    \/ InitDone(1)
    \/ OnceDone(1)
    \/ OncePass(1)
    \/ Lock(1)
    \/ Return(1)
    \/ MonTick
    \/ MonRun
    \/ CloseStop
    \/ \E up \in BOOLEAN : NetChange(up)

\* The monitor's goroutine is scheduled: a step it can take is taken.
SpecStop == Init /\ [][StopNext]_vars /\ WF_vars(MonRun)

IsPrefix(s, t) == Len(s) <= Len(t) /\ SubSeq(t, 1, Len(s)) = s
Occurs(x, seq) == Cardinality({i \in 1..Len(seq) : seq[i] = x})
QueuedIds(h) == [i \in 1..Len(queue[h]) |-> queue[h][i].id]
\* The places entry id is held in: the queues and the workers' hands.
Held(id) ==
    Cardinality({h \in Hooks : cur[h].id = id})
        + Cardinality({<<h, i>> \in Hooks \X (1..MaxEntries) : i <= Len(queue[h]) /\ queue[h][i].id = id})
\* The rendered message of entry id is in the overflow file.
InFile(id) == \E i \in 1..Len(fs.data) : fs.data[i] = 96 + id

\* C2: Fire never waits and never fails: whatever the queue holds and wherever
\* the worker is, the select of Fire is ready, a Fire call can complete, and
\* the value a Fire call returned is nil.
C2_FireNeverBlocks ==
    /\ \A h \in 1..nHooks :
        /\ selectReady(queue[h])
        /\ nEntries < MaxEntries => ENABLED Fire(h)
    /\ lastFire.ret = "nil"

\* Fire has returned nil for an entry it found the queue full for.
C2_Witness ==
    \E h \in Hooks :
        /\ lastFire.hook = h
        /\ lastFire.id \in sawFull
        /\ lastFire.ret = "nil"
        /\ Len(queue[h]) = asyncHookBufferSize

\* C3: the worker of a hook passes entries to the wrapped hook's Fire in the
\* order in which their sends into the queue succeeded.
C3_FIFO ==
    \A h \in Hooks : IsPrefix(fired[h], pushed[h])

\* A worker has passed on two entries while a third was sent after them.
C3_Witness ==
    \E h \in Hooks : Len(fired[h]) >= 2 /\ Len(pushed[h]) > Len(fired[h])

\* C4: every Logger() call returns the same logger, which is not nil, and
\* the logger() build and the start of monitorConnection run once: at most
\* once ever, and once by the time a call has returned.
C4_Singleton ==
    /\ 0 \notin results
    /\ Cardinality(results) <= 1
    /\ \A c \in Callers : returned[c].done => returned[c].val = instance
    /\ nBuilds <= 1
    /\ nMonitors <= 1
    /\ results # {} => (nBuilds = 1 /\ nMonitors = 1)

\* Two callers raced for the first call, and one returned before and the
\* other after the monitor had replaced the client and the hooks.
C4_Witness ==
    /\ raced
    /\ \E c, d \in Callers :
        /\ returned[c].done /\ returned[d].done
        /\ returned[c].gen < returned[d].gen
        /\ returned[c].val = returned[d].val
    /\ mpc = "tick"

\* C15: a Logger() call at its mutex.Lock() never finds the mutex held by the
\* monitor while the monitor is in a network operation.
C15_NoIOUnderMutex ==
    \A c \in Callers :
        lpc[c] = "lock" => ~(mutex = MonitorId /\ MonitorIO(mpc, client))

\* C16: a log call made while reinitializeLogger replaces the hooks of a
\* logger that had a hook is passed to a hook.
C16_AtomicSwap ==
    [][(nEntries' = nEntries + 1 /\ mpc = "replaced" /\ prevHooks # {})
        => lastFire'.hook # 0]_vars

\* C17: when reinitializeLogger returns after the ping of the client it built
\* succeeded, client is that new client and the logger has one hook: a new
\* one that wraps the new client, none of those it had before.
C17_RebuildAttachesOne ==
    [][(mpc = "replaced" /\ mpc' = "unlock")
        => /\ client' = nClients' /\ client' # prevClient
           /\ Cardinality(instHooks') = 1
           /\ instHooks' \cap prevHooks = {}
           /\ \A h \in instHooks' : h = nHooks' /\ h > nHooks /\ wraps'[h] = client']_vars

\* C18: when reinitializeLogger returns early (no URL, no client, ping of the
\* new client failed), client and the logger's hooks are as they were, and
\* the monitor goes on: it unlocks, and a tick that finds no client calls
\* reinitializeLogger again.
C18_FailedRebuildKeepsState ==
    /\ [][(mpc = "reinit" /\ mpc' = "unlock")
            => (client' = client /\ instHooks' = instHooks
                /\ nHooks' = nHooks /\ wraps' = wraps)]_vars
    /\ [](mpc = "unlock" => ENABLED MonUnlock)
    /\ [][(mpc = "locked" /\ mpc' # mpc /\ client = 0) => mpc' = "reinit"]_vars

\* A rebuild has failed on a logger with a client and a hook, which are kept.
C18_Witness ==
    /\ mpc = "unlock" /\ pinged = "fail"
    /\ client # 0 /\ client = prevClient
    /\ instHooks # {} /\ instHooks = prevHooks

\* C19: on a tick reinitializeLogger is called exactly when there is no client
\* or the ping of the client fails; a tick whose ping succeeds leaves client
\* and the logger's hooks unchanged.
C19_TickDecision ==
    [][(mpc = "locked" /\ mpc' # mpc)
        => /\ (mpc' = "reinit") <=> (client = 0 \/ pinged' = "fail")
           /\ (mpc' # "reinit") =>
                (mpc' = "unlock" /\ pinged' = "ok" /\ client' = client /\ instHooks' = instHooks)
           /\ (pinged' = "none") <=> (client = 0)]_vars

\* A tick found the client of an earlier rebuild healthy and is over.
C19_Witness ==
    /\ mpc = "tick" /\ pinged = "ok"
    /\ client # 0 /\ nClients >= 2 /\ instHooks # {}

\* C20: every log call made after a rebuild whose ping succeeded (and before
\* the next one) goes to a registered hook that wraps the new client, and is
\* in that hook's queue unless the queue was full.
C20_LogsAfterRebuild ==
    [][(/\ nEntries' = nEntries + 1
        /\ client # 0 /\ client # prevClient /\ mpc # "replaced")
            => \E h \in instHooks :
                /\ lastFire'.hook = h
                /\ wraps[h] = client
                /\ queue'[h] = IF Len(queue[h]) < asyncHookBufferSize
                                THEN Append(queue[h], duplicateEntry(logEntry(nEntries')))
                                ELSE queue[h]]_vars

\* C5: a hook's queue never holds more than asyncHookBufferSize entries.
C5_QueueBounded ==
    \A h \in Hooks : Len(queue[h]) <= asyncHookBufferSize

\* A queue is full while its worker is held up in the backend call or in
\* writeFallbackLog.
C5_Witness ==
    \E h \in Hooks :
        /\ Len(queue[h]) = asyncHookBufferSize
        /\ wpc[h] \in {"fire", "fallback", "locked"}

\* An entry whose Fire found the queue full is nowhere: not queued, not held by
\* a worker, never passed to the wrapped hook or to writeFallbackLog, not in
\* the overflow file.
Discarded(id) ==
    /\ Held(id) = 0
    /\ \A h \in Hooks : Occurs(id, pushed[h]) = 0 /\ Occurs(id, fired[h]) = 0
    /\ stat[id] = NoStat
    /\ ~InFile(id)

\* C6: a Fire call on a full queue discards the entry: it is never enqueued,
\* passed to the wrapped hook or written to the overflow file, and the call
\* leaves the queue's content unchanged.
C6_FullQueueDrops ==
    /\ [](\A id \in sawFull : Discarded(id))
    /\ [][\A h \in Hooks :
            (nEntries' # nEntries /\ lastFire'.hook = h /\ Len(queue[h]) >= asyncHookBufferSize)
                => queue' = queue]_vars

\* An entry was dropped, every other entry has been worked off and one of them
\* is in the overflow file.
C6_Witness ==
    /\ sawFull # {}
    /\ \A h \in Hooks : queue[h] = <<>> /\ cur[h] = NoEntry
    /\ fs.data # <<>>

\* C7: no entry is duplicated: it is held in at most one place, passed to the
\* wrapped hook at most once (and then no longer queued), handed to the
\* overflow store at most once, and not both delivered and overflowed.
C7_NoDuplicates ==
    \A id \in EntryIds :
        /\ Held(id) <= 1
        /\ stat[id].fires <= 1
        /\ stat[id].fires = 1 => \A h \in Hooks : Occurs(id, QueuedIds(h)) = 0
        /\ Occurs(id, fired[1]) + Cardinality({h \in Hooks \ {1} : Occurs(id, fired[h]) > 0}) <= 1
        /\ \A h \in Hooks : Occurs(id, fired[h]) <= 1
        /\ stat[id].handed <= 1
        /\ (stat[id].fires = 1 /\ stat[id].ret = NoErr) => stat[id].handed = 0

\* One entry was delivered, another overflowed, and nothing is left to do.
C7_Witness ==
    /\ \E a, b \in EntryIds :
        /\ stat[a].fires = 1 /\ stat[a].ret = NoErr
        /\ stat[b].handed = 1 /\ InFile(b)
    /\ \A h \in Hooks : queue[h] = <<>> /\ cur[h] = NoEntry

\* C8: when the wrapped hook's Fire returns an error for an entry, the worker
\* calls writeFallbackLog with the entry once, with that error; it neither
\* queues the entry again nor passes it to the wrapped hook again, and when
\* writeFallbackLog is over it is back at the head of its loop.
C8_ErrorGoesToFallback ==
    /\ [](\A id \in EntryIds :
            stat[id].ret # NoErr =>
                /\ stat[id].handed = 1
                /\ stat[id].cause = stat[id].ret
                /\ stat[id].fires = 1
                /\ \A h \in Hooks : Occurs(id, QueuedIds(h)) = 0)
    /\ [][\A h \in Hooks :
            (wpc[h] \in {"fallback", "locked"} /\ wpc'[h] # wpc[h])
                => /\ wpc'[h] \in {"locked", "recv"}
                   /\ queue'[h] = queue[h]
                   /\ fired'[h] = fired[h]]_vars

\* A worker overflowed an entry into the file and then passed on the next one.
C8_Witness ==
    \E h \in Hooks :
        /\ Len(fired[h]) >= 2
        /\ stat[fired[h][1]].ret # NoErr
        /\ stat[fired[h][1]].handed = 1
        /\ InFile(fired[h][1])

\* data is made of newline-terminated lines only.
Terminated(data) == data = <<>> \/ data[Len(data)] = NL
\* The lines of data: the bytes between its newlines, and those after the last.
RECURSIVE RawLines(_)
RawLines(data) ==
    IF data = <<>> THEN <<>>
    ELSE LET i == IndexNL(data)
         IN  IF i = 0 THEN <<data>>
             ELSE <<SubSeq(data, 1, i - 1)>> \o RawLines(SubSeq(data, i + 1, Len(data)))
RECURSIVE JoinLines(_)
JoinLines(ls) == IF ls = <<>> THEN <<>> ELSE Head(ls) \o <<NL>> \o JoinLines(Tail(ls))
IsSuffix(s, t) == Len(s) <= Len(t) /\ SubSeq(t, Len(t) - Len(s) + 1, Len(t)) = s
CountNL(data) == Cardinality({i \in 1..Len(data) : data[i] = NL})

\* C11: on a file of three newline-terminated lines L1, L2, L3, a call of
\* trimOldestLines that asks for one byte more than L1 with its newline and
\* meets no I/O error returns no error and leaves the file L2, L3.
C11_TrimThreeLines ==
    LET ls == RawLines(trim.before)
    IN  (/\ trim.done /\ trim.ioOK
         /\ Terminated(trim.before) /\ Len(ls) = 3
         /\ trim.bytesToFree = Len(ls[1]) + 1 + 1)
            => (~trim.err /\ fs.data = JoinLines(<<ls[2], ls[3]>>))

\* C12: a call of trimOldestLines that returns no error on a file of
\* newline-terminated lines at least bytesToFree long has made the file at
\* least bytesToFree bytes shorter.
C12_TrimFreesEnough ==
    (/\ trim.done /\ ~trim.err
     /\ Terminated(trim.before)
     /\ Len(trim.before) >= trim.bytesToFree)
        => Len(trim.before) - Len(fs.data) >= trim.bytesToFree

\* C13: after a call of trimOldestLines that returns no error the lines of the
\* file are a suffix of the lines it had, each with the bytes it had.
C13_TrimKeepsWholeLines ==
    (trim.done /\ ~trim.err)
        => IsSuffix(RawLines(fs.data), RawLines(trim.before))

\* C14: the bytes buildFallbackBytes makes for an entry, when there are any,
\* hold one newline, and it is their last byte.
C14_OneLinePerEntry ==
    (call.done /\ call.logBytes # <<>>)
        => (CountNL(call.logBytes) = 1 /\ call.logBytes[Len(call.logBytes)] = NL)

Contains(data, sub) ==
    \E i \in 1..(Len(data) - Len(sub) + 1) : SubSeq(data, i, i + Len(sub) - 1) = sub

\* C1: after any sequence of writeFallbackLog calls the overflow file's size
\* is at most the byte budget fallbackMaxBytes.
C1_SizeWithinBudget ==
    fileSize(fs) <= fallbackMaxBytes

\* C9: once a writeFallbackLog call has returned whose rendered entry is not
\* empty and not larger than the budget (and that met no I/O error), the
\* overflow file contains the rendered entry.
C9_PersistedContent ==
    (call.done /\ ~fallbackSkipped(call.logBytes) /\ call.ioOK)
        => Contains(fs.data, call.logBytes)

\* C10: a writeFallbackLog call whose rendered entry is larger than the budget
\* leaves the overflow file as it was: not created, not trimmed, not appended to.
C10_OversizeWritesNothing ==
    [][(call'.done /\ Len(call'.logBytes) > fallbackMaxBytes) => fs' = fs]_vars

\* An oversize call has returned and has left a file with content in place.
C10_Witness ==
    /\ call.done
    /\ Len(call.logBytes) > fallbackMaxBytes
    /\ fs.exists
    /\ fs.data # <<>>

\* C21: with ELASTIC_URL empty, logger() returns a logger (not nil) without
\* having made a client or a hook, and Logger() goes on to start the monitor;
\* a tick that finds it empty returns from reinitializeLogger with client and
\* the hooks as they were; and a log call on a logger without hooks completes.
C21_UnsetAddress ==
    /\ [][(lpc[1] = "build" /\ lpc'[1] # "build" /\ elasticURL = NoURL)
            => (/\ instance' # 0 /\ lpc'[1] = "spawn"
                /\ client' = 0 /\ nClients' = 0
                /\ instHooks' = {} /\ nHooks' = nHooks)]_vars
    /\ [][(mpc = "reinit" /\ mpc' # mpc /\ elasticURL = NoURL)
            => (/\ mpc' = "unlock"
                /\ client' = client /\ nClients' = nClients
                /\ instHooks' = instHooks /\ nHooks' = nHooks)]_vars
    /\ []((results # {} /\ instHooks = {} /\ nEntries < MaxLogs) => ENABLED LogBypass)
    /\ [](lastFire.ret = "nil")

\* The logger was built and returned with the address empty, a log call was
\* made on it, and a tick has come back from reinitializeLogger with nothing
\* attached.
C21_Witness ==
    /\ elasticURL = NoURL /\ nClients = 0 /\ nHooks = 0
    /\ results = {1} /\ instHooks = {}
    /\ nEntries >= 1 /\ lastFire.hook = 0
    /\ mpc = "unlock"

\* C22: with ELASTIC_URL set and the host not answering, logger() returns a
\* logger (not nil) and leaves client nil and the logger without hooks; a tick
\* that finds client nil calls reinitializeLogger; and while the host does not
\* answer no step makes a client or a hook: reinitializeLogger returns with
\* client still nil.
C22_UnreachableHost ==
    /\ [][(lpc[1] = "build" /\ lpc'[1] # "build" /\ elasticURL # NoURL /\ ~reachable)
            => (/\ instance' # 0 /\ lpc'[1] = "spawn"
                /\ client' = 0 /\ instHooks' = {} /\ nHooks' = nHooks)]_vars
    /\ [][(mpc = "locked" /\ mpc' # mpc /\ client = 0) => mpc' = "reinit"]_vars
    /\ [][(mpc = "reinit" /\ mpc' # mpc /\ ~reachable)
            => (mpc' = "unlock" /\ client' = client /\ instHooks' = instHooks)]_vars
    /\ [][(client = 0 /\ ~reachable /\ ~reachable')
            => (client' = 0 /\ instHooks' = {} /\ nHooks' = nHooks)]_vars

\* The logger was built and returned with the address set and the host down,
\* and a tick has come back from a failed reinitializeLogger.
C22_Witness ==
    /\ elasticURL # NoURL /\ ~reachable
    /\ results = {1} /\ client = 0 /\ instHooks = {} /\ nClients = 0
    /\ mpc = "unlock" /\ pinged = "none"

\* C23 as claimed: every log call made while the host does not answer is
\* passed to a registered hook, which has it in its queue afterwards.
C23_OutageQueues ==
    [][(nEntries' = nEntries + 1 /\ ~reachable)
        => \E h \in instHooks :
            /\ lastFire'.hook = h
            /\ \E i \in 1..Len(queue'[h]) : queue'[h][i].id = nEntries']_vars

\* C23 as amended: while the host does not answer, a log call on a logger with
\* a hook is sent into that hook's queue unless the queue is full, and an entry
\* whose delivery is tried fails and is handed to writeFallbackLog, once; a log
\* call on a logger without hooks changes no queue and not the file.
C23_OutageHooked ==
    /\ [][(nEntries' = nEntries + 1 /\ ~reachable /\ instHooks # {})
            => \E h \in instHooks :
                /\ lastFire'.hook = h
                /\ queue'[h] = IF Len(queue[h]) < asyncHookBufferSize
                                THEN Append(queue[h], duplicateEntry(logEntry(nEntries')))
                                ELSE queue[h]]_vars
    /\ [][(nEntries' = nEntries + 1 /\ instHooks = {})
            => (lastFire'.hook = 0 /\ queue' = queue /\ fs' = fs /\ stat' = stat)]_vars
    /\ [][\A h \in Hooks :
            (wpc[h] = "fire" /\ wpc'[h] # "fire" /\ ~reachable)
                => /\ wpc'[h] = "fallback"
                   /\ cur'[h] = cur[h] /\ cause'[h] # NoErr
                   /\ stat'[cur[h].id].handed = stat[cur[h].id].handed + 1
                   /\ stat'[cur[h].id].handed = 1]_vars

\* With the host down and a rebuild failed, the hook that was attached before
\* has taken a log call, and its failed delivery is in the fallback file.
C23_Witness ==
    /\ ~reachable /\ pinged = "fail" /\ mpc = "unlock"
    /\ \E h \in instHooks :
        /\ lastFire.hook = h
        /\ stat[lastFire.id].handed = 1
        /\ InFile(lastFire.id)

C26_FileSerialized ==
    /\ [](Cardinality({h \in Hooks : wpc[h] = "locked"}) <= 1)
    /\ [](\A h \in Hooks : wpc[h] = "locked" <=> fileLock = h)
    /\ [][fs' # fs
            => \E h \in Hooks :
                /\ fileLock = h /\ wpc[h] = "locked"
                /\ fileLock' = 0 /\ wpc'[h] = "recv"
                /\ \A g \in Hooks \ {h} : wpc'[g] = wpc[g]]_vars
    /\ [](\A h \in Hooks :
            (wpc[h] = "fallback" /\ fileLock # 0) => ~ENABLED FallbackLock(h))

\* Two workers have failed deliveries at once: one holds fileLock, the other
\* waits for it, and the file has an earlier entry.
C26_Witness ==
    \E h, g \in Hooks :
        /\ h # g
        /\ wpc[h] = "locked" /\ fileLock = h
        /\ wpc[g] = "fallback" /\ ~fallbackSkipped(render(cur[g], cause[g]))
        /\ fs.exists /\ fs.data # <<>>

\* C27: mutex is held only by a Logger() caller or by the monitor, inside
\* their locked sections, and fileLock only by a worker inside
\* writeFallbackLog, so no goroutine holds both; a worker in writeFallbackLog
\* goes on whoever holds mutex (it waits for fileLock alone); and the monitor
\* holding mutex, and a caller finding mutex free, go on whoever holds
\* fileLock.
C27_LocksIndependent ==
    /\ mutex # 0 =>
        \/ mutex = MonitorId /\ mpc \in {"locked", "reinit", "replaced", "unlock"}
        \/ mutex \in Callers /\ lpc[mutex] \in {"build", "spawn", "ret"}
    /\ fileLock # 0 => (fileLock \in Hooks /\ wpc[fileLock] = "locked")
    /\ \A h \in Hooks :
        /\ wpc[h] = "locked" => ENABLED FallbackWrite(h)
        /\ (wpc[h] = "fallback" /\ fileLock = 0)
            => (ENABLED FallbackLock(h) \/ ENABLED FallbackSkip(h))
    /\ mutex = MonitorId => ENABLED MonRun
    /\ (lpc[1] \in {"initlock", "lock"} /\ mutex = 0) => (ENABLED InitLock(1) \/ ENABLED Lock(1))

\* The monitor holds mutex in reinitializeLogger while a worker holds
\* fileLock.
C27_Witness ==
    /\ mutex = MonitorId /\ mpc \in {"reinit", "replaced"}
    /\ fileLock # 0 /\ wpc[fileLock] = "locked"

\* C28 as claimed: a rebuild that replaces a client connects to the address
\* that client was made for, whatever ELASTIC_URL has been set to since.
C28_ConfigFrozen ==
    [][(mpc = "reinit" /\ mpc' = "replaced" /\ clientAddr # NoURL)
        => clientAddr' = clientAddr]_vars

\* C28 as amended: logger() and every reinitializeLogger read ELASTIC_URL anew
\* and make their client for the address it has then; setting ELASTIC_URL
\* changes neither the logger, nor client, nor the hooks, nor where the
\* monitor is; and no other step changes the address of the client.
C28_ConfigReadAtRebuild ==
    /\ [][(mpc = "reinit" /\ mpc' = "replaced")
            => (elasticURL # NoURL /\ client' # client /\ clientAddr' = elasticURL)]_vars
    /\ [][(lpc[1] = "build" /\ lpc'[1] # "build")
            => clientAddr' = (IF client' # 0 THEN elasticURL ELSE NoURL)]_vars
    /\ [][elasticURL' # elasticURL
            => (/\ instance' = instance /\ client' = client /\ clientAddr' = clientAddr
                /\ instHooks' = instHooks /\ wraps' = wraps /\ mpc' = mpc)]_vars
    /\ [][clientAddr' # clientAddr
            => (mpc' = "replaced" \/ lpc'[1] = "spawn") /\ (mpc' # mpc \/ lpc' # lpc)]_vars

\* The address was changed after a client had been made, and a rebuild has
\* replaced that client by one for the new address.
C28_Witness ==
    /\ mpc = "unlock" /\ results # {}
    /\ prevClient # 0 /\ client # prevClient /\ instHooks # {}
    /\ prevAddr # NoURL /\ clientAddr # prevAddr /\ clientAddr = elasticURL


(***************************************************************************)
(* The request adapters: NewGin, NewFiber and the gRPC interceptors, the   *)
(* Log...Client calls a handler makes, and the entry written at the end.   *)
(* A header or metadata key is modelled by its first value, NoID when it   *)
(* is absent or empty; a generated identifier differs from every           *)
(* identifier a caller sends and from every identifier generated before.   *)
(***************************************************************************)
uuidNewString(n) == MaxIds + n + 1

\* NewGin: requestID := c.GetHeader(RequestIDHeader), a new one if it is "".
ginRequestID(header, uuid) == IF header = NoID THEN uuid ELSE header

\* NewFiber: requestID := c.Get(RequestIDHeader), a new one if it is "".
fiberRequestID(header, uuid) == IF header = NoID THEN uuid ELSE header

fetchRequestIDHeaderless(ctxID, header, uuid) == IF ctxID # NoID THEN ctxID ELSE uuid

\* fetchRequestID: the context's value if it is a non-empty string, else the
\* incoming metadata's first value if it is not empty, else a new one.
fetchRequestID(ctxID, header, uuid) ==
    IF ctxID # NoID THEN ctxID
    ELSE IF header # NoID THEN header
    ELSE uuid

\* fetchClientLog: the context's pointer, a copy of the context's slice, or a
\* pointer to a new empty slice.
fetchClientLog(ctxKind, ctxLog) ==
    IF ctxKind \in {"ptr", "slice"} THEN [kind |-> "ptr", list |-> ctxLog]
    ELSE [kind |-> "ptr", list |-> <<>>]

logGinClientReplacing(stored, logData) == [kind |-> "slice", list |-> <<logData>>]

\* LogGinClient: the stored list, an empty one if the key is not set, with the
\* record appended.
logGinClient(stored, logData) ==
    [kind |-> "slice",
     list |-> Append(IF stored.kind = "none" THEN <<>> ELSE stored.list, logData)]

\* LogFiberClient: append(clientLog, logData).
logFiberClient(stored, logData) == [kind |-> "slice", list |-> Append(stored.list, logData)]

\* LogGRPCClient: *stored = append(*stored, logData), only if a pointer is stored.
logGRPCClient(stored, logData) ==
    IF stored.kind = "ptr" THEN [stored EXCEPT !.list = Append(@, logData)] ELSE stored

\* The middleware's part before the handler runs.
NewGin(header) ==
    /\ hpc # "handler" /\ nRequests < MaxRequests
    /\ LET id == ginRequestID(header, uuidNewString(nUUID)) IN
        /\ requestID' = id
        /\ respHeader' = <<id>>
    /\ nUUID' = IF header = NoID THEN nUUID + 1 ELSE nUUID
    /\ clientLog' = [kind |-> "slice", list |-> <<>>]
    /\ adapter' = "gin"
    /\ inbound' = [NoInbound EXCEPT !.header = header]
    /\ hpc' = "handler" /\ calls' = <<>> /\ logged' = NoLog
    /\ path' = "none" /\ sinkCalls' = <<>>
    /\ nRequests' = nRequests + 1
    /\ UNCHANGED <<storeVars, hookVars, sinkVars, copyVars>>

NewFiber(header) ==
    /\ hpc # "handler" /\ nRequests < MaxRequests
    /\ LET id == fiberRequestID(header, uuidNewString(nUUID)) IN
        /\ requestID' = id
        /\ respHeader' = <<id>>
    /\ nUUID' = IF header = NoID THEN nUUID + 1 ELSE nUUID
    /\ clientLog' = [kind |-> "slice", list |-> <<>>]
    /\ adapter' = "fiber"
    /\ inbound' = [NoInbound EXCEPT !.header = header]
    /\ hpc' = "handler" /\ calls' = <<>> /\ logged' = NoLog
    /\ path' = "none" /\ sinkCalls' = <<>>
    /\ nRequests' = nRequests + 1
    /\ UNCHANGED <<storeVars, hookVars, sinkVars, copyVars>>

\* NewGRPCUnary and NewGRPCStream up to the handler: prepareGRPCContext on a
\* context that may already hold a request id and a client log.
prepareGRPCContext(ctxID, header, ctxKind, ctxLog) ==
    /\ hpc # "handler" /\ nRequests < MaxRequests
    /\ LET id == fetchRequestID(ctxID, header, uuidNewString(nUUID)) IN
        /\ requestID' = id
        /\ respHeader' = <<id>>
    /\ nUUID' = IF ctxID = NoID /\ header = NoID THEN nUUID + 1 ELSE nUUID
    /\ clientLog' = fetchClientLog(ctxKind, ctxLog)
    /\ adapter' = "grpc"
    /\ inbound' = [header |-> header, ctxID |-> ctxID, ctxKind |-> ctxKind,
                   ctxLog |-> IF ctxKind = "none" THEN <<>> ELSE ctxLog]
    /\ hpc' = "handler" /\ calls' = <<>> /\ logged' = NoLog
    /\ path' = "none" /\ sinkCalls' = <<>>
    /\ nRequests' = nRequests + 1
    /\ UNCHANGED <<storeVars, hookVars, sinkVars, copyVars>>

\* The calls the handler makes.
LogGinClient(logData) ==
    /\ hpc = "handler" /\ adapter = "gin" /\ Len(calls) < MaxCalls
    /\ clientLog' = logGinClient(clientLog, logData)
    /\ calls' = Append(calls, logData)
    /\ UNCHANGED <<adapter, hpc, inbound, requestID, respHeader, logged, nUUID, nRequests>>
    /\ UNCHANGED <<path, sinkCalls>>
    /\ UNCHANGED <<storeVars, hookVars, sinkVars, copyVars>>

LogFiberClient(logData) ==
    /\ hpc = "handler" /\ adapter = "fiber" /\ Len(calls) < MaxCalls
    /\ clientLog' = logFiberClient(clientLog, logData)
    /\ calls' = Append(calls, logData)
    /\ UNCHANGED <<adapter, hpc, inbound, requestID, respHeader, logged, nUUID, nRequests>>
    /\ UNCHANGED <<path, sinkCalls>>
    /\ UNCHANGED <<storeVars, hookVars, sinkVars, copyVars>>

\* LogGRPCClient also sets the response header again, from the handler's context.
LogGRPCClient(logData) ==
    /\ hpc = "handler" /\ adapter = "grpc" /\ Len(calls) < MaxCalls
    /\ clientLog' = logGRPCClient(clientLog, logData)
    /\ calls' = Append(calls, logData)
    /\ respHeader' = Append(respHeader,
                            fetchRequestID(requestID, inbound.header, uuidNewString(nUUID)))
    /\ UNCHANGED <<adapter, hpc, inbound, requestID, logged, nUUID, nRequests>>
    /\ UNCHANGED <<path, sinkCalls>>
    /\ UNCHANGED <<storeVars, hookVars, sinkVars, copyVars>>

\* The Error calls made before the entry is written: one if user.Current()
\* failed, one for each body that json.Unmarshal (marshalPayload) rejected.
errorCalls(userOK, reqOK, resOK) ==
    (IF userOK THEN <<>> ELSE <<"error">>)
    \o (IF reqOK THEN <<>> ELSE <<"error">>)
    \o (IF resOK THEN <<>> ELSE <<"error">>)

\* The entry written after the handler returned.  logGin dereferences the
\* result of user.Current() also when the lookup failed.
logGin(userOK, reqOK, resOK) ==
    /\ hpc = "handler" /\ adapter = "gin"
    /\ IF userOK
        THEN /\ logged' = [requestId |-> requestID, target |-> clientLog.list,
                           written |-> TRUE]
             /\ sinkCalls' = Append(errorCalls(userOK, reqOK, resOK), "info")
             /\ hpc' = "done"
        ELSE /\ hpc' = "panicked"
             /\ sinkCalls' = errorCalls(userOK, reqOK, resOK)
             /\ UNCHANGED logged
    /\ path' = "ok"
    /\ UNCHANGED <<adapter, inbound, requestID, respHeader, clientLog, calls, nUUID, nRequests>>
    /\ UNCHANGED <<storeVars, hookVars, sinkVars, copyVars>>

\* NewFiber after c.Next(): it returned nil, or an error the error handler
\* took care of, or one the error handler returned; logFiber is called on each.
logFiber(p, userOK, reqOK, resOK) ==
    /\ hpc = "handler" /\ adapter = "fiber"
    /\ logged' = [requestId |-> requestID, target |-> clientLog.list, written |-> TRUE]
    /\ sinkCalls' = Append(errorCalls(userOK, reqOK, resOK), "info")
    /\ path' = p
    /\ hpc' = "done"
    /\ UNCHANGED <<adapter, inbound, requestID, respHeader, clientLog, calls, nUUID, nRequests>>
    /\ UNCHANGED <<storeVars, hookVars, sinkVars, copyVars>>

\* logGRPCUnary and logGRPCStream: requestId and readClientLog(clientLog).
logGRPC(userOK, reqOK, resOK) ==
    /\ hpc = "handler" /\ adapter = "grpc"
    /\ logged' = [requestId |-> requestID, target |-> clientLog.list, written |-> TRUE]
    /\ sinkCalls' = Append(errorCalls(userOK, reqOK, resOK), "info")
    /\ path' = "ok"
    /\ hpc' = "done"
    /\ UNCHANGED <<adapter, inbound, requestID, respHeader, clientLog, calls, nUUID, nRequests>>
    /\ UNCHANGED <<storeVars, hookVars, sinkVars, copyVars>>

\* The lists a context can already hold when the interceptor is entered.
CtxLogs == {<<>>} \cup {<<d>> : d \in LogData}

RequestNext ==
    \/ \E header \in {NoID} \cup ReqIds : NewGin(header)
    \/ \E header \in {NoID} \cup ReqIds : NewFiber(header)
    \/ \E ctxID \in {NoID} \cup ReqIds, header \in {NoID} \cup ReqIds,
          ctxKind \in {"none", "ptr", "slice"}, ctxLog \in CtxLogs :
            prepareGRPCContext(ctxID, header, ctxKind, ctxLog)
    \/ \E logData \in LogData : LogGinClient(logData)
    \/ \E logData \in LogData : LogFiberClient(logData)
    \/ \E logData \in LogData : LogGRPCClient(logData)
    \/ \E userOK \in BOOLEAN, reqOK \in BOOLEAN, resOK \in BOOLEAN :
            logGin(userOK, reqOK, resOK)
    \/ \E p \in {"ok", "handled", "unhandled"},
          userOK \in BOOLEAN, reqOK \in BOOLEAN, resOK \in BOOLEAN :
            logFiber(p, userOK, reqOK, resOK)
    \/ \E userOK \in BOOLEAN, reqOK \in BOOLEAN, resOK \in BOOLEAN :
            logGRPC(userOK, reqOK, resOK)

SpecRequest == Init /\ [][RequestNext]_vars


\* The identifier the last uuid.NewString() call returned.
lastUUID == MaxIds + nUUID

\* Every value set for the response header is id, and one was set.
echoed(id) == respHeader # <<>> /\ \A k \in 1..Len(respHeader) : respHeader[k] = id

\* C29 as stated: a request with a non-empty request-ID header gets that
\* identifier on its log entry and in its response header, and any other
\* request gets one newly generated identifier on both.
C29_HeaderReused ==
    hpc \in {"handler", "done"} =>
        LET id == IF inbound.header # NoID THEN inbound.header ELSE lastUUID IN
            /\ echoed(id)
            /\ logged.written => logged.requestId = id

\* C29, amended: in the gRPC interceptors a non-empty identifier already in
\* the request's context comes first; otherwise the identifier is the inbound
\* header's if that is not empty, else one newly generated identifier; the
\* log entry and every value of the response header carry that identifier.
C29_RequestIDPropagated ==
    hpc \in {"handler", "done"} =>
        LET id == IF adapter = "grpc" /\ inbound.ctxID # NoID THEN inbound.ctxID
                  ELSE IF inbound.header # NoID THEN inbound.header
                  ELSE lastUUID IN
            /\ nUUID > 0 => lastUUID \notin ReqIds
            /\ requestID = id
            /\ echoed(id)
            /\ logged.written => logged.requestId = id

\* A later request that brought its identifier in the header, after one that
\* was given a generated identifier: the entry and the header carry the header's.
C29_Witness ==
    /\ hpc = "done" /\ logged.written /\ nUUID > 0
    /\ inbound.header # NoID /\ inbound.ctxID = NoID
    /\ logged.requestId = inbound.header
    /\ respHeader[1] = inbound.header


\* C30 as stated: the accumulator holds exactly the records of the request's
\* Log...Client calls, one per call, in call order, and the request's entry
\* carries that list as target.
C30_OnlyTheCalls ==
    hpc \in {"handler", "done"} =>
        /\ clientLog.list = calls
        /\ logged.written => logged.target = calls

\* C30, amended: the accumulator holds the records it began with (none in
\* NewGin and NewFiber, those of a list already in the context in the gRPC
\* interceptors) followed by one record per Log...Client call, in call
\* order, and the request's entry carries that list as target.
C30_CallsAppended ==
    hpc \in {"handler", "done"} =>
        /\ adapter \in {"gin", "fiber"} => inbound.ctxLog = <<>>
        /\ clientLog.list = inbound.ctxLog \o calls
        /\ Len(clientLog.list) = Len(inbound.ctxLog) + Len(calls)
        /\ logged.written => logged.target = inbound.ctxLog \o calls

\* A gRPC request that found a record in its context and made two different
\* calls: its entry lists the three in order.
C30_Witness ==
    /\ hpc = "done" /\ logged.written /\ adapter = "grpc"
    /\ inbound.ctxLog # <<>>
    /\ Len(calls) = 2 /\ calls[1] # calls[2]
    /\ logged.target = <<inbound.ctxLog[1], calls[1], calls[2]>>


\* C31: once a request's handler has returned, exactly one log call has been
\* made to the sink for it, however the handler ended, and none before.
C31_OneLogCall ==
    /\ hpc = "handler" => sinkCalls = <<>>
    /\ hpc \in {"done", "panicked"} => Len(sinkCalls) = 1


\* Entry id was sent into a hook's queue.
accepted(id) == \E h \in Hooks : \E k \in 1..Len(pushed[h]) : pushed[h][k] = id

\* Entry id went through hook.Fire once, which delivered it or whose error
\* sent it to writeFallbackLog, and no worker is held by it any more.
settled(id) ==
    /\ stat[id].fires = 1
    /\ stat[id].ret = NoErr \/ stat[id].handed = 1
    /\ \A h \in Hooks : cur[h].id # id

\* C32: with workers that are scheduled and calls that return, every entry
\* accepted into a hook's queue, also that of a hook that has been replaced,
\* is eventually delivered or handed to writeFallbackLog, and its worker
\* moves on whatever hook.Fire and the file operations returned.
C32_Drains == \A id \in EntryIds : accepted(id) ~> settled(id)

\* The replaced hook's worker handed its first entry to writeFallbackLog,
\* which could not create the file, and then delivered the second.
C32_Witness ==
    /\ nHooks = 2
    /\ pushed[1] = <<1, 2>>
    /\ stat[1].handed = 1 /\ ~fs.exists
    /\ stat[2].ret = NoErr
    /\ settled(1) /\ settled(2)


(***************************************************************************)
(* The copy Fire queues.  A *bytes.Buffer is a number and bufs holds what   *)
(* it contains, so that two entries can share one buffer; the other fields  *)
(* of an entry are values.  The caller goes on using its entry after Fire   *)
(* has returned: logrus resets the buffer and hands it to the next call.    *)
(***************************************************************************)
\* clone.Buffer = entry.Buffer (a mutant of copyBuffer).
copyBufferShared(heap, n, buf) == [bufs |-> heap, nBufs |-> n, dup |-> buf]

\* copyBuffer: nil for nil, else a new buffer with the bytes of buf.
copyBuffer(heap, n, buf) ==
    IF buf = 0 THEN [bufs |-> heap, nBufs |-> n, dup |-> 0]
    ELSE [bufs |-> [heap EXCEPT ![n + 1] = heap[buf]], nBufs |-> n + 1, dup |-> n + 1]

\* duplicateEntry: entry.Dup(), then Time, Level, Message and Caller are
\* assigned and Buffer is copied.
duplicateEntryBuf(heap, n, e) ==
    LET c == copyBuffer(heap, n, e.Buffer)
    IN  [bufs |-> c.bufs, nBufs |-> c.nBufs,
         clone |-> [Message |-> e.Message, Level |-> e.Level, Time |-> e.Time,
                    Caller |-> e.Caller, Buffer |-> c.dup]]

\* What hook.Fire and formatEntry read of entry e.
view(e) ==
    [Message |-> e.Message, Level |-> e.Level, Time |-> e.Time, Caller |-> e.Caller,
     hasBuffer |-> e.Buffer # 0,
     content |-> IF e.Buffer = 0 THEN <<>> ELSE bufs[e.Buffer]]

\* asyncHook.Fire(entry) on the caller's entry.
CopyFire ==
    /\ nChanges < MaxChanges
    /\ orig.Buffer # 0 => nBufs < MaxBufs
    /\ LET d == duplicateEntryBuf(bufs, nBufs, orig)
           r == selectSend(copies, d.clone)
       IN  /\ bufs' = d.bufs
           /\ nBufs' = d.nBufs
           /\ copies' = r.q
           /\ atFire' = IF r.sent THEN Append(atFire, view(orig)) ELSE atFire
    /\ nChanges' = nChanges + 1
    /\ UNCHANGED <<orig, passed>>
    /\ UNCHANGED <<storeVars, hookVars, sinkVars, reqVars>>

\* The caller assigns a field of its entry.
SetField(f, v) ==
    /\ nChanges < MaxChanges
    /\ orig[f] # v
    /\ orig' = [orig EXCEPT ![f] = v]
    /\ nChanges' = nChanges + 1
    /\ UNCHANGED <<bufs, nBufs, copies, atFire, passed>>
    /\ UNCHANGED <<storeVars, hookVars, sinkVars, reqVars>>

\* The entry gets a buffer: a new one, or none.
SetBuffer(fresh) ==
    /\ nChanges < MaxChanges
    /\ IF fresh
        THEN /\ nBufs < MaxBufs
             /\ nBufs' = nBufs + 1
             /\ orig' = [orig EXCEPT !.Buffer = nBufs + 1]
        ELSE /\ orig.Buffer # 0
             /\ orig' = [orig EXCEPT !.Buffer = 0]
             /\ UNCHANGED nBufs
    /\ nChanges' = nChanges + 1
    /\ UNCHANGED <<bufs, copies, atFire, passed>>
    /\ UNCHANGED <<storeVars, hookVars, sinkVars, reqVars>>

\* The entry's buffer is written to, or reset.
BufferWrite(reset) ==
    /\ nChanges < MaxChanges
    /\ orig.Buffer # 0
    /\ IF reset
        THEN /\ bufs[orig.Buffer] # <<>>
             /\ bufs' = [bufs EXCEPT ![orig.Buffer] = <<>>]
        ELSE /\ Len(bufs[orig.Buffer]) < MaxBufLen
             /\ bufs' = [bufs EXCEPT ![orig.Buffer] = Append(@, 97)]
    /\ nChanges' = nChanges + 1
    /\ UNCHANGED <<orig, nBufs, copies, atFire, passed>>
    /\ UNCHANGED <<storeVars, hookVars, sinkVars, reqVars>>

\* The worker takes the oldest clone and passes it to hook.Fire, and on an
\* error to writeFallbackLog.
CopyRecv ==
    /\ copies # <<>>
    /\ LET r == receive(copies)
       IN  /\ copies' = r.q
           /\ passed' = [done |-> TRUE, got |-> view(r.e), want |-> Head(atFire)]
    /\ atFire' = Tail(atFire)
    /\ UNCHANGED <<orig, bufs, nBufs, nChanges>>
    /\ UNCHANGED <<storeVars, hookVars, sinkVars, reqVars>>

CopyNext ==
    \/ CopyFire
    \/ \E f \in {"Message", "Level", "Time", "Caller"}, v \in {1, 2} : SetField(f, v)
    \/ \E fresh \in BOOLEAN : SetBuffer(fresh)
    \/ \E reset \in BOOLEAN : BufferWrite(reset)
    \/ CopyRecv

SpecCopy == Init /\ [][CopyNext]_vars

C34_FailedTrimKeepsFile ==
    [][(call'.done /\ call'.trimErr) => (fs' = fs /\ fs.exists)]_vars

\* A call without any I/O error needed a trim of a file with a line the
\* scanner cannot take; the file is still there with that line.
C34_Witness ==
    /\ call.done /\ call.trimErr /\ call.ioOK
    /\ fs.exists /\ scanLines(fs.data).err


\* C35: a call of trimOldestLines with bytesToFree greater than the size of
\* the file that meets no I/O error returns no error and leaves the file in
\* place and empty.
C35_TrimEverything ==
    (trim.done /\ trim.ioOK /\ trim.bytesToFree > Len(trim.before))
        => (~trim.err /\ fs.exists /\ fs.data = <<>>)


\* logger() or reinitializeLogger is running.
building == mpc \in {"reinit", "replaced"} \/ \E c \in Callers : lpc[c] = "build"

\* C36: whenever client is not nil and neither logger() nor
\* reinitializeLogger is running, the logger has exactly one hook.
C36_ClientHasHook ==
    (client # 0 /\ ~building) => Cardinality(instHooks) = 1


\* reinitializeLogger has taken the hook h off the logger.
replaced(h) == h \in prevHooks /\ h \notin instHooks

\* C37: the worker of a replaced hook that has drained its queue and waits
\* at its receive has a step to take, the end of its loop; it does not wait
\* there for ever.
C37_ReplacedWorkerEnds ==
    \A h \in Hooks :
        (replaced(h) /\ queue[h] = <<>> /\ wpc[h] = "recv") => ENABLED WorkerRun(h)


(***************************************************************************)
(* The users of the two locks together: a Logger() caller and the monitor  *)
(* (mutex), the callers' log calls, and the hooks' workers (fileLock).     *)
(***************************************************************************)
\* A log call on the logger Logger() returned.
LockLog ==
    /\ results # {}
    /\ \E h \in instHooks : DrainFire(h)

\* The steps a Logger() call takes without waiting for a lock.
CallerRun(c) ==
    \/ OnceEnter(c)
    \/ OncePass(c)
    \/ Build(c)
    \/ InitDone(c)
    \/ OnceDone(c)
    \/ Return(c)

LocksNext ==
    \/ Call(1)
    \/ OnceEnter(1)
    \/ OncePass(1)
    \/ InitLock(1)
    \/ Build(1)
    \/ InitDone(1)
    \/ OnceDone(1)
    \/ Lock(1)
    \/ Return(1)
    \/ MonitorNext
    \/ LockLog
    \/ \E h \in Hooks : Recv(h)
    \/ \E h \in Hooks : HookFire(h)
    \/ \E h \in Hooks : FallbackSkip(h)
    \/ \E h \in Hooks : FallbackLock(h)
    \/ \E h \in Hooks : FallbackWrite(h)

\* The steps the monitor takes while it holds mutex.
MonGo == MonPing \/ MonReinit \/ MonAttach \/ MonUnlock

\* Every goroutine is scheduled: a step it can take without waiting is taken.
\* A goroutine in Lock() of mutex or fileLock gets the mutex after finitely
\* many releases (sync.Mutex hands it to a waiter that has starved for 1 ms),
\* and the ticker goes on sending ticks.  The network and file operations are
\* part of the steps, so they return.
LocksFair ==
    /\ WF_vars(CallerRun(1))
    /\ SF_vars(InitLock(1))
    /\ SF_vars(Lock(1))
    /\ WF_vars(MonGo)
    /\ SF_vars(MonLock)
    /\ DrainFair

SpecLocks == Init /\ [][LocksNext]_vars /\ LocksFair

\* A goroutine at a Lock() does not hold the lock it asks for.
NoReacquire ==
    /\ \A c \in Callers : lpc[c] \in {"initlock", "lock"} => mutex # c
    /\ mpc = "tick" => mutex # MonitorId
    /\ \A h \in Hooks : wpc[h] = "fallback" => fileLock # h

\* The holder of a lock is at a step it can take: it waits for no lock.
NoHoldAndWait ==
    /\ mutex = MonitorId => ENABLED MonGo
    /\ mutex \in Callers => ENABLED CallerRun(mutex)
    /\ fileLock # 0 => ENABLED FallbackWrite(fileLock)

\* Worker h is in fileLock.Lock().
atFileLock(h) == wpc[h] = "fallback" /\ ~fallbackSkipped(render(cur[h], cause[h]))

\* C38: no goroutine asks for a lock it holds, no holder of a lock waits for
\* a lock (so there is no cycle of waits), and a Logger() call at a
\* mutex.Lock(), the monitor at its tick and a worker at fileLock.Lock() each
\* get the lock.
C38_DeadlockFree ==
    /\ []NoReacquire
    /\ []NoHoldAndWait
    /\ (lpc[1] \in {"initlock", "lock"}) ~> (mutex = 1)
    /\ (mpc = "tick") ~> (mutex = MonitorId)
    /\ \A h \in Hooks : atFileLock(h) ~> (fileLock = h)

\* A Logger() call waits for mutex, which the monitor holds in
\* reinitializeLogger, while a worker waits for fileLock, which the worker of
\* another hook holds.
C38_Witness ==
    /\ lpc[1] = "lock" /\ mutex = MonitorId /\ mpc \in {"reinit", "replaced"}
    /\ \E h, g \in Hooks : h # g /\ atFileLock(h) /\ fileLock = g

=============================================================================
